---------------------------- MODULE Spec2Model ----------------------------
(***************************************************************************)
(* ngx-renamer: the response normalizers of the LLM providers and the      *)
(* orchestrator PaperlessAITitles.generate_and_update_title.               *)
(*                                                                         *)
(* Python values are tagged records [t, v]:                                *)
(*   t = "str"  v = sequence of characters (one element per code point)    *)
(*   t = "num"  v = integer          t = "bool" v = BOOLEAN                *)
(*   t = "None" v = 0                t = "list" v = sequence of values     *)
(*   t = "obj"  v = sequence of [key, val] with distinct keys (a dict)     *)
(* A call's outcome is [kind, val, exc]: a return value or a raised        *)
(* exception.  A JSON text is a sequence of lexemes [tok, v]; a string     *)
(* lexeme carries its characters as written, escapes not yet decoded.      *)
(***************************************************************************)
EXTENDS Integers, Sequences, FiniteSets, TLC

VARIABLES raw, results,
          pc, calls, document_id, provider, settings,
          document_details, new_title, exc,
          document_text, built_prompt, generated, history,
          settings_file, env, created

vars == <<raw, results, pc, calls, document_id, provider, settings,
          document_details, new_title, exc,
          document_text, built_prompt, generated, history,
          settings_file, env, created>>

parseVars == <<raw, results>>
runVars == <<pc, calls, document_id, provider, settings,
             document_details, new_title, exc>>
buildVars == <<document_text, built_prompt, generated, history>>
createVars == <<settings_file, env, created>>

---------------------------------------------------------------------------
(* Program constants and model bounds *)

MAX_TITLE_LENGTH == 127

\* Title lengths run from MAX_TITLE_LENGTH - MaxOver to MAX_TITLE_LENGTH + MaxOver.
MaxOver == 2

\* Short title lengths run from 0 to MaxShort.
MaxShort == 2

\* A title repeats a pattern of 1..MaxPat characters.
MaxPat == 2

---------------------------------------------------------------------------
(* Python values and call outcomes *)

PyNone == [t |-> "None", v |-> 0]

JStr(s) == [t |-> "str", v |-> s]

JNum(n) == [t |-> "num", v |-> n]

JBool(b) == [t |-> "bool", v |-> b]

JList(items) == [t |-> "list", v |-> items]

JObj(pairs) == [t |-> "obj", v |-> pairs]

Return(v) == [kind |-> "return", val |-> v, exc |-> "none"]

Raise(e) == [kind |-> "raise", val |-> PyNone, exc |-> e]

\* bool(v): Python truth value, as tested by `not title` / `if new_title`.
Truthy(v) ==
  CASE v.t = "str" -> Len(v.v) > 0
    [] v.t = "num" -> v.v # 0
    [] v.t = "bool" -> v.v
    [] v.t = "None" -> FALSE
    [] v.t = "list" -> Len(v.v) > 0
    [] v.t = "obj" -> Len(v.v) > 0

\* len(v): defined for str, list and dict; TypeError for int, bool.
PyLen(v) ==
  IF v.t \in {"str", "list", "obj"} THEN Return(JNum(Len(v.v)))
  ELSE Raise("TypeError")

\* v[:n]: a prefix of a str or list; a dict cannot be sliced (TypeError, unhashable
\* slice; KeyError from Python 3.12 on: both are handled alike by every caller).
PySlice(v, n) ==
  IF v.t \in {"str", "list"}
  THEN Return([t |-> v.t, v |-> SubSeq(v.v, 1, IF Len(v.v) < n THEN Len(v.v) ELSE n)])
  ELSE Raise("TypeError")

\* d.get(key, default) on a dict; on any other value the attribute is missing.
RECURSIVE Lookup(_, _, _, _)
Lookup(pairs, i, key, default) ==
  IF i > Len(pairs) THEN default
  ELSE IF pairs[i].key = key THEN pairs[i].val
  ELSE Lookup(pairs, i + 1, key, default)

PyGet(d, key, default) ==
  IF d.t = "obj" THEN Return(Lookup(d.v, 1, key, default))
  ELSE Raise("AttributeError")

\* d[key] = val: a later duplicate key overwrites the earlier value.
DictSet(pairs, key, val) ==
  IF \E i \in 1..Len(pairs) : pairs[i].key = key
  THEN [i \in 1..Len(pairs) |->
          IF pairs[i].key = key THEN [key |-> key, val |-> val] ELSE pairs[i]]
  ELSE Append(pairs, [key |-> key, val |-> val])

KEY_TITLE == <<"t", "i", "t", "l", "e">>

EMPTY_STR == JStr(<<>>)

---------------------------------------------------------------------------
(* json.loads *)

\* Characters as written inside a JSON string: a literal character, an escape
\* sequence, or a raw control character (which strict JSON rejects).
LiteralChars == {"A", "U+00E9", " "}

EscapeChars == {"\\n"}

ControlChars == {"RAW_LF"}

RawChars == LiteralChars \cup EscapeChars \cup ControlChars

\* The code point an element of a string lexeme decodes to.
DecodeChar(c) ==
  CASE c = "\\n" -> "LF"
    [] c = "\\t" -> "TAB"
    [] OTHER -> c

ValidString(s) == \A i \in 1..Len(s) : s[i] \notin ControlChars

DecodeString(s) == [i \in 1..Len(s) |-> DecodeChar(s[i])]

Tok(k) == [tok |-> k, v |-> <<>>]

StrTok(s) == [tok |-> "str", v |-> s]

NumTok(n) == [tok |-> "num", v |-> n]

POk(val, next) == [ok |-> TRUE, val |-> val, next |-> next]

PFail == [ok |-> FALSE, val |-> PyNone, next |-> 0]

RECURSIVE ParseValue(_, _), ParseElements(_, _, _), ParseMembers(_, _, _)

ParseValue(toks, i) ==
  IF i > Len(toks) THEN PFail
  ELSE LET k == toks[i].tok IN
    CASE k = "str" ->
           IF ValidString(toks[i].v) THEN POk(JStr(DecodeString(toks[i].v)), i + 1)
           ELSE PFail
      [] k = "num" -> POk(JNum(toks[i].v), i + 1)
      [] k = "true" -> POk(JBool(TRUE), i + 1)
      [] k = "false" -> POk(JBool(FALSE), i + 1)
      [] k = "null" -> POk(PyNone, i + 1)
      [] k = "[" ->
           IF i + 1 <= Len(toks) /\ toks[i + 1].tok = "]"
           THEN POk(JList(<<>>), i + 2)
           ELSE ParseElements(toks, i + 1, <<>>)
      [] k = "{" ->
           IF i + 1 <= Len(toks) /\ toks[i + 1].tok = "}"
           THEN POk(JObj(<<>>), i + 2)
           ELSE ParseMembers(toks, i + 1, <<>>)
      [] OTHER -> PFail

ParseElements(toks, i, acc) ==
  LET r == ParseValue(toks, i) IN
  IF ~r.ok \/ r.next > Len(toks) THEN PFail
  ELSE IF toks[r.next].tok = "," THEN ParseElements(toks, r.next + 1, Append(acc, r.val))
  ELSE IF toks[r.next].tok = "]" THEN POk(JList(Append(acc, r.val)), r.next + 1)
  ELSE PFail

ParseMembers(toks, i, acc) ==
  IF i + 1 > Len(toks) THEN PFail
  ELSE IF toks[i].tok # "str" \/ toks[i + 1].tok # ":" THEN PFail
  ELSE IF ~ValidString(toks[i].v) THEN PFail
  ELSE LET r == ParseValue(toks, i + 2) IN
    IF ~r.ok \/ r.next > Len(toks) THEN PFail
    ELSE LET acc2 == DictSet(acc, DecodeString(toks[i].v), r.val) IN
      IF toks[r.next].tok = "," THEN ParseMembers(toks, r.next + 1, acc2)
      ELSE IF toks[r.next].tok = "}" THEN POk(JObj(acc2), r.next + 1)
      ELSE PFail

\* json.loads(content): content is [isNone, toks]; None is not a str (TypeError);
\* the whole text must be one value (no extra data).
json_loads(content) ==
  IF content.isNone THEN Raise("TypeError")
  ELSE LET r == ParseValue(content.toks, 1) IN
    IF r.ok /\ r.next = Len(content.toks) + 1 THEN Return(r.val)
    ELSE Raise("JSONDecodeError")

Text(toks) == [isNone |-> FALSE, toks |-> toks]

NoneText == [isNone |-> TRUE, toks |-> <<>>]

---------------------------------------------------------------------------
(* The response normalizers *)

\* Bytes of a character in UTF-8.
Utf8Len(c) == IF c = "U+00E9" THEN 2 ELSE 1

Utf8Size(s, k) == k + Cardinality({i \in 1..k : Utf8Len(s[i]) = 2})

\* Mutant: the limit is applied to the UTF-8 encoding of the title.
Base_try_bytes(content) ==
  LET d == json_loads(content) IN
  IF d.kind = "raise" THEN d
  ELSE LET g == PyGet(d.val, KEY_TITLE, EMPTY_STR) IN
    IF g.kind = "raise" THEN g
    ELSE LET title == g.val IN
      IF ~Truthy(title) THEN Return(PyNone)
      ELSE IF title.t # "str" THEN Raise("AttributeError")
      ELSE IF Utf8Size(title.v, Len(title.v)) > MAX_TITLE_LENGTH
      THEN LET k == CHOOSE k \in 0..Len(title.v) :
                      /\ Utf8Size(title.v, k) <= MAX_TITLE_LENGTH
                      /\ \A j \in (k + 1)..Len(title.v) :
                            Utf8Size(title.v, j) > MAX_TITLE_LENGTH
           IN Return(JStr(SubSeq(title.v, 1, k)))
      ELSE Return(title)

\* BaseLLMProvider._parse_structured_response, the statements of its try block.
Base_try(content) ==
  LET d == json_loads(content) IN
  IF d.kind = "raise" THEN d
  ELSE LET g == PyGet(d.val, KEY_TITLE, EMPTY_STR) IN
    IF g.kind = "raise" THEN g
    ELSE LET title == g.val IN
      IF ~Truthy(title) THEN Return(PyNone)
      ELSE LET n == PyLen(title) IN
        IF n.kind = "raise" THEN n
        ELSE IF n.val.v > MAX_TITLE_LENGTH THEN PySlice(title, MAX_TITLE_LENGTH)
        ELSE Return(title)

\* Mutant: only the JSONDecodeError handler, no `except Exception`.
Base_parse_json_errors_only(content) ==
  LET r == Base_try(content) IN
  IF r.kind = "raise" /\ r.exc = "JSONDecodeError" THEN Return(PyNone) ELSE r

\* except json.JSONDecodeError / except Exception: both return None.
Base_parse_structured_response(content) ==
  LET r == Base_try(content) IN
  IF r.kind = "raise" THEN Return(PyNone) ELSE r

\* Mutant: the limit of OpenAI's copy is the 128 of its TITLE_SCHEMA.
OpenAI_try_128(content) ==
  LET d == json_loads(content) IN
  IF d.kind = "raise" THEN d
  ELSE LET g == PyGet(d.val, KEY_TITLE, EMPTY_STR) IN
    IF g.kind = "raise" THEN g
    ELSE LET title == g.val IN
      IF ~Truthy(title) THEN Return(PyNone)
      ELSE LET n == PyLen(title) IN
        IF n.kind = "raise" THEN n
        ELSE IF n.val.v > 128 THEN PySlice(title, 128)
        ELSE Return(title)

\* OpenAITitles._parse_structured_response, the statements of its try block.
OpenAI_try(content) ==
  LET d == json_loads(content) IN
  IF d.kind = "raise" THEN d
  ELSE LET g == PyGet(d.val, KEY_TITLE, EMPTY_STR) IN
    IF g.kind = "raise" THEN g
    ELSE LET title == g.val IN
      IF ~Truthy(title) THEN Return(PyNone)
      ELSE LET n == PyLen(title) IN
        IF n.kind = "raise" THEN n
        ELSE IF n.val.v > 127 THEN PySlice(title, 127)
        ELSE Return(title)

OpenAI_parse_structured_response(content) ==
  LET r == OpenAI_try(content) IN
  IF r.kind = "raise" THEN Return(PyNone) ELSE r

\* Mutant: the emptiness test strips the title first (`if not title.strip()`).
Ollama_try_strip(content) ==
  LET d == json_loads(content) IN
  IF d.kind = "raise" THEN d
  ELSE LET g == PyGet(d.val, KEY_TITLE, EMPTY_STR) IN
    IF g.kind = "raise" THEN g
    ELSE LET title == g.val IN
      IF title.t # "str" THEN Raise("AttributeError")
      ELSE IF \A i \in 1..Len(title.v) : title.v[i] \in {" ", "LF", "TAB"}
      THEN Return(PyNone)
      ELSE LET n == PyLen(title) IN
        IF n.kind = "raise" THEN n
        ELSE IF n.val.v > 127 THEN PySlice(title, 127)
        ELSE Return(title)

\* OllamaTitles._parse_structured_response, the statements of its try block.
Ollama_try(content) ==
  LET d == json_loads(content) IN
  IF d.kind = "raise" THEN d
  ELSE LET g == PyGet(d.val, KEY_TITLE, EMPTY_STR) IN
    IF g.kind = "raise" THEN g
    ELSE LET title == g.val IN
      IF ~Truthy(title) THEN Return(PyNone)
      ELSE LET n == PyLen(title) IN
        IF n.kind = "raise" THEN n
        ELSE IF n.val.v > 127 THEN PySlice(title, 127)
        ELSE Return(title)

Ollama_parse_structured_response(content) ==
  LET r == Ollama_try(content) IN
  IF r.kind = "raise" THEN Return(PyNone) ELSE r

\* ClaudeTitles.generate_title_from_text, the body of the loop for the
\* document_title tool_use block: block.input is the payload already decoded.
Claude_try(input) ==
  LET g == PyGet(input, KEY_TITLE, EMPTY_STR) IN
  IF g.kind = "raise" THEN g
  ELSE LET title == g.val IN
    IF ~Truthy(title) THEN Return(PyNone)
    ELSE LET n == PyLen(title) IN
      IF n.kind = "raise" THEN n
      ELSE IF n.val.v > MAX_TITLE_LENGTH THEN PySlice(title, MAX_TITLE_LENGTH)
      ELSE Return(title)

\* except (AttributeError, KeyError, TypeError): return None; anything else escapes.
Claude_inline_title(input) ==
  LET r == Claude_try(input) IN
  IF r.kind = "raise" /\ r.exc \in {"AttributeError", "KeyError", "TypeError"}
  THEN Return(PyNone) ELSE r

---------------------------------------------------------------------------
(* Settings and the prompt builder *)

\* A settings file as loaded by BaseLLMProvider._load_settings: None when the
\* file could not be read, else a dict; `keys` are the top-level keys present and
\* prompt.keys the sub-keys present in the prompt block.
\* `models` holds, for each provider P, what the dict says about its model:
\* `nested` tells whether settings[P] is missing, a dict, or some other value
\* (`P:` with nothing under it loads as None), `model` is settings[P]["model"]
\* and `flat` the top-level settings["P_model"], each "none" when absent.
ModelEntry(nested, model, flat) == [nested |-> nested, model |-> model, flat |-> flat]

NoModels ==
  [v \in {"openai", "ollama", "claude"} |-> ModelEntry("missing", "none", "none")]

NoSettings ==
  [loaded |-> FALSE, keys |-> {}, with_date |-> FALSE,
   prompt |-> [keys |-> {}, main |-> <<>>, with_date |-> <<>>, no_date |-> <<>>,
               pre_content |-> <<>>, post_content |-> <<>>],
   models |-> NoModels]

PLACEHOLDER == <<"{", "c", "u", "r", "r", "e", "n", "t", "_", "d", "a", "t", "e", "}">>

\* datetime.today().strftime("%Y-%m-%d")
TODAY == <<"2", "0", "2", "4", "-", "0", "1", "-", "1", "5">>

StartsWith(s, i, old) ==
  /\ i + Len(old) - 1 <= Len(s)
  /\ \A j \in 1..Len(old) : s[i + j - 1] = old[j]

\* s.replace(old, new) from position i on: every occurrence, left to right,
\* without overlap (old is not empty).
RECURSIVE ReplaceFrom(_, _, _, _)
ReplaceFrom(s, i, old, new) ==
  IF i > Len(s) THEN <<>>
  ELSE IF StartsWith(s, i, old) THEN new \o ReplaceFrom(s, i + Len(old), old, new)
  ELSE <<s[i]>> \o ReplaceFrom(s, i + 1, old, new)

\* Mutant: the result of replace() is dropped, the template is used as it is.
PyReplace_dropped(s, old, new) == s

\* Mutant: only the first occurrence is replaced (replace(old, new, 1)).
PyReplace_first(s, old, new) ==
  IF \E i \in 1..Len(s) : StartsWith(s, i, old)
  THEN LET i == CHOOSE i \in 1..Len(s) :
                  StartsWith(s, i, old) /\ \A j \in 1..(i - 1) : ~StartsWith(s, j, old)
       IN SubSeq(s, 1, i - 1) \o new \o SubSeq(s, i + Len(old), Len(s))
  ELSE s

PyReplace(s, old, new) == ReplaceFrom(s, 1, old, new)

\* d.get(key, default) on the settings dict and on its prompt block.
SettingsGet(d, key, value, default) == IF key \in d.keys THEN value ELSE default

\* BaseLLMProvider._build_prompt: the prompt, or None.
build_prompt(st, text) ==
  IF ~st.loaded \/ st.keys = {} THEN Return(PyNone)
  ELSE
    LET with_date == SettingsGet(st, "with_date", st.with_date, FALSE)
        sp == st.prompt
    IN
    IF "prompt" \notin st.keys \/ sp.keys = {} THEN Return(PyNone)
    ELSE
      LET main == SettingsGet(sp, "main", sp.main, <<>>)
          date == IF with_date
                  THEN PyReplace(SettingsGet(sp, "with_date", sp.with_date, <<>>),
                                 PLACEHOLDER, TODAY)
                  ELSE SettingsGet(sp, "no_date", sp.no_date, <<>>)
      IN Return(JStr(main \o date
                      \o SettingsGet(sp, "pre_content", sp.pre_content, <<>>) \o text
                      \o SettingsGet(sp, "post_content", sp.post_content, <<>>)))

---------------------------------------------------------------------------
(* The providers' generate_title_from_text *)

\* TITLE_SCHEMA of openai_titles.py, of ollama_titles.py and of constants.py
\* (the one claude_titles.py imports).
OpenAI_TITLE_SCHEMA ==
  [type |-> "object",
   properties |-> [title |-> [type |-> "string", maxLength |-> 128,
                              description |-> "The generated document title"]],
   required |-> <<"title">>,
   additionalProperties |-> FALSE]

Ollama_TITLE_SCHEMA ==
  [type |-> "object",
   properties |-> [title |-> [type |-> "string", maxLength |-> 128,
                              description |-> "The generated document title"]],
   required |-> <<"title">>,
   additionalProperties |-> FALSE]

TITLE_SCHEMA ==
  [type |-> "object",
   properties |-> [title |-> [type |-> "string", maxLength |-> MAX_TITLE_LENGTH,
                              description |-> "The generated document title"]],
   required |-> <<"title">>,
   additionalProperties |-> FALSE]

\* The schema a provider's API call carries: response_format.json_schema.schema
\* (OpenAI), format (Ollama), tools[0].input_schema (Claude).
request_schema(prov) ==
  CASE prov = "openai" -> OpenAI_TITLE_SCHEMA
    [] prov = "ollama" -> Ollama_TITLE_SCHEMA
    [] prov = "claude" -> TITLE_SCHEMA

\* What the remote LLM API does with the one request: the call fails (transport
\* or API error), or a response arrives whose envelope holds `content` or lacks it
\* (OpenAI: no choices; Ollama: no message).
ApiError == [kind |-> "error", envelope |-> "none", content |-> NoneText]

\* The remote API refuses the request with an error whose text mentions the
\* model ("model 'x' not found"): ollama.ResponseError for Ollama.
ApiModelNotFound == [kind |-> "error", envelope |-> "model_not_found", content |-> NoneText]

ApiResponse(content) == [kind |-> "response", envelope |-> "ok", content |-> content]

ApiEmptyEnvelope == [kind |-> "response", envelope |-> "empty", content |-> NoneText]

\* The outcome of generate_title_from_text and the requests it sent.
Generated(outcome, requests) == [outcome |-> outcome, requests |-> requests]

DEFAULT_MODELS ==
  [openai |-> "gpt-4o-mini", ollama |-> "gpt-oss:latest",
   claude |-> "claude-3-5-sonnet-20241022", grok |-> "grok-2"]

\* The model id __call_openai_api sends: settings["openai"].get("model", default)
\* when settings["openai"] is a dict, else settings.get("openai_model", default).
OpenAI_model(st) ==
  LET m == st.models["openai"] IN
  IF m.nested = "dict"
  THEN IF m.model # "none" THEN m.model ELSE "gpt-4o-mini"
  ELSE IF m.flat # "none" THEN m.flat ELSE "gpt-4o-mini"

\* The model id __call_ollama_api sends: settings["ollama"].get("model", default)
\* when settings["ollama"] is a dict, else the default.
Ollama_model(st) ==
  LET m == st.models["ollama"] IN
  IF m.nested = "dict"
  THEN IF m.model # "none" THEN m.model ELSE "gpt-oss:latest"
  ELSE "gpt-oss:latest"

\* The model id _call_claude_api sends.
Claude_model(st) ==
  LET m == st.models["claude"] IN
  IF m.nested = "dict"
  THEN IF m.model # "none" THEN m.model ELSE DEFAULT_MODELS["claude"]
  ELSE IF m.flat # "none" THEN m.flat ELSE DEFAULT_MODELS["claude"]

request_model(prov, st) ==
  CASE prov = "openai" -> OpenAI_model(st)
    [] prov = "ollama" -> Ollama_model(st)
    [] prov = "claude" -> Claude_model(st)

\* __call_ollama_api when self._client.chat raised: the handler of
\* ollama.ResponseError reads self.settings.get("ollama", {}).get("model", ...)
\* when the error text mentions the model, which raises AttributeError out of
\* the handler when settings["ollama"] is present and no dict; every other
\* failure returns None.
Ollama_call_ollama_api_failed(st, api) ==
  IF api.envelope = "model_not_found" /\ st.models["ollama"].nested = "other"
  THEN Raise("AttributeError") ELSE Return(PyNone)

\* OpenAITitles.generate_title_from_text; __call_openai_api returns None on any
\* exception; result.choices[0] is outside every try block.
OpenAI_generate_title_from_text(st, text, api) ==
  LET prompt == build_prompt(st, text).val IN
  IF ~Truthy(prompt) THEN Generated(Return(PyNone), <<>>)
  ELSE IF api.kind = "error" THEN Generated(Return(PyNone), <<prompt>>)
  ELSE IF api.envelope = "empty" THEN Generated(Raise("IndexError"), <<prompt>>)
  ELSE Generated(OpenAI_parse_structured_response(api.content), <<prompt>>)

\* Mutant: the API is called before the prompt is tested.
Ollama_generate_title_from_text_unguarded(st, text, api) ==
  LET prompt == build_prompt(st, text).val IN
  IF api.kind = "error"
    THEN Generated(Ollama_call_ollama_api_failed(st, api), <<prompt>>)
  ELSE IF api.envelope = "empty" THEN Generated(Return(PyNone), <<prompt>>)
  ELSE Generated(Ollama_parse_structured_response(api.content), <<prompt>>)

\* OllamaTitles.generate_title_from_text; result['message']['content'] is read
\* inside try ... except (KeyError, TypeError).
Ollama_generate_title_from_text(st, text, api) ==
  LET prompt == build_prompt(st, text).val IN
  IF ~Truthy(prompt) THEN Generated(Return(PyNone), <<>>)
  ELSE IF api.kind = "error"
    THEN Generated(Ollama_call_ollama_api_failed(st, api), <<prompt>>)
  ELSE IF api.envelope = "empty" THEN Generated(Return(PyNone), <<prompt>>)
  ELSE Generated(Ollama_parse_structured_response(api.content), <<prompt>>)

\* ClaudeTitles.generate_title_from_text; _call_claude_api returns None on any
\* exception; the response holds the document_title tool_use block, whose input
\* is the decoded payload (None when the payload is no JSON value), or no such
\* block.
Claude_generate_title_from_text(st, text, api) ==
  LET prompt == build_prompt(st, text).val IN
  IF ~Truthy(prompt) THEN Generated(Return(PyNone), <<>>)
  ELSE IF api.kind = "error" THEN Generated(Return(PyNone), <<prompt>>)
  ELSE IF api.envelope = "empty" THEN Generated(Return(PyNone), <<prompt>>)
  ELSE LET input == json_loads(api.content) IN
    Generated(Claude_inline_title(IF input.kind = "raise" THEN PyNone ELSE input.val),
              <<prompt>>)

generate_title_from_text(prov, st, text, api) ==
  IF prov = "openai" THEN OpenAI_generate_title_from_text(st, text, api)
  ELSE Ollama_generate_title_from_text(st, text, api)

\* provider.generate_title_from_text(text) of any of the three provider classes,
\* with the schema and the model id that went out with each request and what
\* the remote API did with it.
Sent(g, schema, model, api) ==
  [outcome |-> g.outcome, requests |-> g.requests,
   schemas |-> [i \in 1..Len(g.requests) |-> schema],
   models |-> [i \in 1..Len(g.requests) |-> model],
   answers |-> [i \in 1..Len(g.requests) |->
                 [kind |-> api.kind, envelope |-> api.envelope,
                  has_content |-> ~api.content.isNone]]]

provider_generate(prov, st, text, api) ==
  CASE prov = "openai" ->
         Sent(OpenAI_generate_title_from_text(st, text, api), request_schema(prov),
              request_model(prov, st), api)
    [] prov = "ollama" ->
         Sent(Ollama_generate_title_from_text(st, text, api), request_schema(prov),
              request_model(prov, st), api)
    [] prov = "claude" ->
         Sent(Claude_generate_title_from_text(st, text, api), request_schema(prov),
              request_model(prov, st), api)

---------------------------------------------------------------------------
(* Provider selection and creation: the registry, LLMFactory and             *)
(* PaperlessAITitles.__init__ / _create_llm_provider.                       *)
(*                                                                         *)
(* A provider name is its sequence of characters.  An error message is a   *)
(* sequence of segments: a piece of literal text is a one-element segment, *)
(* an interpolated name is the name itself.                                *)

LOWER == <<"a", "b", "c", "d", "e", "f", "g", "h", "i", "j", "k", "l", "m",
           "n", "o", "p", "q", "r", "s", "t", "u", "v", "w", "x", "y", "z">>

UPPER == <<"A", "B", "C", "D", "E", "F", "G", "H", "I", "J", "K", "L", "M",
           "N", "O", "P", "Q", "R", "S", "T", "U", "V", "W", "X", "Y", "Z">>

\* c.lower() and c.upper() of one character
LowerChar(c) ==
  IF \E i \in 1..Len(UPPER) : UPPER[i] = c
  THEN LOWER[CHOOSE i \in 1..Len(UPPER) : UPPER[i] = c]
  ELSE c

UpperChar(c) ==
  IF \E i \in 1..Len(LOWER) : LOWER[i] = c
  THEN UPPER[CHOOSE i \in 1..Len(LOWER) : LOWER[i] = c]
  ELSE c

\* s.lower()
PyLower(s) == [i \in 1..Len(s) |-> LowerChar(s[i])]

PROVIDER_OPENAI == <<"o", "p", "e", "n", "a", "i">>

PROVIDER_OLLAMA == <<"o", "l", "l", "a", "m", "a">>

PROVIDER_CLAUDE == <<"c", "l", "a", "u", "d", "e">>

SETTINGS_FILE == JStr(<<"settings.yaml">>)

\* The outcome of creating a provider: an instance of a provider class with the
\* headers its client was created with, or a raised exception and its message.
Provided(cls, headers) ==
  [kind |-> "instance", cls |-> cls, exc |-> "none", msg |-> <<>>, headers |-> headers]

Failed(e, msg) ==
  [kind |-> "raise", cls |-> "none", exc |-> e, msg |-> msg, headers |-> <<>>]

ProviderClass(cls) ==
  [kind |-> "class", cls |-> cls, exc |-> "none", msg |-> <<>>, headers |-> <<>>]

NotCreated ==
  [kind |-> "pending", cls |-> "none", exc |-> "none", msg |-> <<>>, headers |-> <<>>]

\* OpenAITitles(openai_api_key, settings_file="settings.yaml"); the settings load
\* of BaseLLMProvider.__init__ catches every exception.
OpenAITitles_new(args) ==
  IF Len(args) \notin 1..2 THEN Failed("TypeError", <<>>)
  ELSE Provided("OpenAITitles", <<>>)

\* OllamaTitles(ollama_base_url, settings_file="settings.yaml"); the client is
\* ollama.Client(host=ollama_base_url), without headers.
OllamaTitles_new(args) ==
  IF Len(args) \notin 1..2 THEN Failed("TypeError", <<>>)
  ELSE Provided("OllamaTitles", <<>>)

\* ClaudeTitles(claude_api_key, settings_file="settings.yaml")
ClaudeTitles_new(args) ==
  IF Len(args) \notin 1..2 THEN Failed("TypeError", <<>>)
  ELSE Provided("ClaudeTitles", <<>>)

\* provider_class(*args)
Construct(cls, args) ==
  CASE cls = "OpenAITitles" -> OpenAITitles_new(args)
    [] cls = "OllamaTitles" -> OllamaTitles_new(args)
    [] cls = "ClaudeTitles" -> ClaudeTitles_new(args)

\* sorted(names) of lower-case names, and sep.join(names)
Ord(c) == CHOOSE i \in 1..Len(LOWER) : LOWER[i] = c

LexLess(a, b) ==
  \E k \in 1..(Len(a) + 1) :
    /\ \A j \in 1..(k - 1) : j <= Len(b) /\ a[j] = b[j]
    /\ \/ k = Len(a) + 1 /\ Len(b) >= k
       \/ k <= Len(a) /\ k <= Len(b) /\ Ord(a[k]) < Ord(b[k])

PySorted(names) ==
  CHOOSE s \in [1..Len(names) -> {names[i] : i \in 1..Len(names)}] :
    /\ \A i \in 1..Len(names) : \E j \in 1..Len(names) : s[j] = names[i]
    /\ \A i, j \in 1..Len(names) : i < j => LexLess(s[i], s[j])

RECURSIVE Join(_, _, _)
Join(names, i, sep) ==
  IF i > Len(names) THEN <<>>
  ELSE IF i = Len(names) THEN <<names[i]>>
  ELSE <<names[i], sep>> \o Join(names, i + 1, sep)

\* _PROVIDER_REGISTRY[name.lower()] = provider_class
register_provider(registry, name, provider_class) ==
  DictSet(registry, PyLower(name), provider_class)

\* Mutant: the Claude provider is registered too.
PROVIDER_REGISTRY_with_claude ==
  register_provider(
    register_provider(
      register_provider(<<>>, PROVIDER_OLLAMA, "OllamaTitles"),
      PROVIDER_OPENAI, "OpenAITitles"),
    PROVIDER_CLAUDE, "ClaudeTitles")

\* The registry after the import of modules.providers.
PROVIDER_REGISTRY ==
  register_provider(
    register_provider(<<>>, PROVIDER_OLLAMA, "OllamaTitles"),
    PROVIDER_OPENAI, "OpenAITitles")

RegistryKeys(registry) == [i \in 1..Len(registry) |-> registry[i].key]

get_provider_class(name) ==
  LET provider_class == Lookup(PROVIDER_REGISTRY, 1, PyLower(name), "none") IN
  IF provider_class = "none"
  THEN Failed("ValueError",
              <<<<"Unknown LLM provider '">>, name, <<"'. ">>, <<"Available providers: ">>>>
                \o Join(PySorted(RegistryKeys(PROVIDER_REGISTRY)), 1, <<", ">>))
  ELSE ProviderClass(provider_class)

\* Mutant: the key is handed to the client without the test `if not api_key`.
create_openai_provider_unchecked(provider_class, api_key, file) ==
  Construct(provider_class, <<api_key, file>>)

\* LLMFactory._create_openai_provider
create_openai_provider(provider_class, api_key, file) ==
  IF ~Truthy(api_key)
  THEN Failed("ValueError",
              <<<<"OPENAI_API_KEY">>, <<" environment variable is ">>, <<"required">>,
                <<" when using OpenAI provider. Either set ">>, <<"OPENAI_API_KEY">>,
                <<" or change llm_provider to 'ollama' in settings.yaml">>>>)
  ELSE Construct(provider_class, <<api_key, file>>)

\* LLMFactory._create_ollama_provider
create_ollama_provider(provider_class, base_url, api_key, file) ==
  IF ~Truthy(base_url)
  THEN Failed("ValueError",
              <<<<"OLLAMA_BASE_URL">>, <<" environment variable is ">>, <<"required">>,
                <<" when using Ollama provider. Either set ">>, <<"OLLAMA_BASE_URL">>,
                <<" or change llm_provider to 'openai' in settings.yaml">>>>)
  ELSE Construct(provider_class, <<base_url, api_key, file>>)

\* LLMFactory.create_provider
create_provider(provider_name, e, file) ==
  IF provider_name.t # "str" THEN Failed("AttributeError", <<>>)
  ELSE
    LET p == PyLower(provider_name.v)
        provider_class == get_provider_class(p)
    IN
    IF provider_class.kind = "raise" THEN provider_class
    ELSE IF p = PROVIDER_OPENAI
    THEN create_openai_provider(provider_class.cls, e.openai_api_key, file)
    ELSE IF p = PROVIDER_OLLAMA
    THEN create_ollama_provider(provider_class.cls, e.ollama_base_url, e.ollama_api_key, file)
    ELSE Failed("ValueError", <<<<"Unhandled provider: ">>, p>>)

\* The settings file on disk: unreadable (missing, no permission, not YAML),
\* without content, or a mapping; `keys` are the keys the claims are about.
SettingsFile(kind, keys, llm_provider) ==
  [kind |-> kind, keys |-> keys, llm_provider |-> llm_provider]

\* What PaperlessAITitles._load_settings returns: yaml.safe_load's result (None
\* for a file without content), {} after any exception.
LoadedSettings(t, keys, llm_provider) ==
  [t |-> t, keys |-> keys, llm_provider |-> llm_provider]

Orchestrator_load_settings(file) ==
  IF file.kind = "unreadable" THEN LoadedSettings("dict", {}, PyNone)
  ELSE IF file.kind = "empty" THEN LoadedSettings("None", {}, PyNone)
  ELSE LoadedSettings("dict", file.keys, file.llm_provider)

\* Mutant: the fallback of a missing llm_provider key is "ollama".
DEFAULT_PROVIDER_ollama == PROVIDER_OLLAMA

\* The default of self.settings.get("llm_provider", "openai")
DEFAULT_PROVIDER == PROVIDER_OPENAI

\* Mutant: the configured name is compared as written, without .lower().
selected_provider_as_written(st) ==
  LET v == IF "llm_provider" \in st.keys THEN st.llm_provider ELSE JStr(DEFAULT_PROVIDER) IN
  IF v.t # "str" THEN Raise("AttributeError")
  ELSE Return(JStr(v.v))

\* provider = self.settings.get("llm_provider", "openai").lower()
selected_provider(st) ==
  LET v == IF "llm_provider" \in st.keys THEN st.llm_provider ELSE JStr(DEFAULT_PROVIDER) IN
  IF v.t # "str" THEN Raise("AttributeError")
  ELSE Return(JStr(PyLower(v.v)))

\* PaperlessAITitles._create_llm_provider
create_llm_provider(st, e, file) ==
  IF st.t # "dict" THEN Failed("AttributeError", <<>>)
  ELSE
    LET sel == selected_provider(st) IN
    IF sel.kind = "raise" THEN Failed(sel.exc, <<>>)
    ELSE
      LET p == sel.val.v IN
      IF p = PROVIDER_OPENAI
      THEN IF ~Truthy(e.openai_api_key)
           THEN Failed("ValueError",
                       <<<<"OPENAI_API_KEY">>, <<" environment variable is ">>,
                         <<"required">>,
                         <<" when using OpenAI provider.\nEither set ">>,
                         <<"OPENAI_API_KEY">>,
                         <<" or change llm_provider to 'ollama' in settings.yaml">>>>)
           ELSE OpenAITitles_new(<<e.openai_api_key, file>>)
      ELSE IF p = PROVIDER_OLLAMA
      THEN IF ~Truthy(e.ollama_base_url)
           THEN Failed("ValueError",
                       <<<<"OLLAMA_BASE_URL">>, <<" environment variable is ">>,
                         <<"required">>,
                         <<" when using Ollama provider.\nEither set ">>,
                         <<"OLLAMA_BASE_URL">>,
                         <<" or change llm_provider to 'openai' in settings.yaml">>>>)
           ELSE OllamaTitles_new(<<e.ollama_base_url, file>>)
      ELSE Failed("ValueError",
                  <<<<"Unknown LLM provider '">>, p, <<"'. ">>, <<"Valid options: ">>,
                    <<"'">>, PROVIDER_OPENAI, <<"', '">>, PROVIDER_OLLAMA,
                    <<"'\nCheck the 'llm_provider' setting in ">>, file.v>>)

\* The parameters of PaperlessAITitles.__init__ besides self.
INIT_PARAMETERS ==
  {"openai_api_key", "ollama_base_url", "paperless_url", "paperless_api_key",
   "settings_file"}

\* PaperlessAITitles(**arguments): an argument the signature does not have is a
\* TypeError; then the settings are loaded and the provider is created.
PaperlessAITitles_new(arguments, file, e) ==
  IF ~(arguments \subseteq INIT_PARAMETERS) THEN Failed("TypeError", <<>>)
  ELSE create_llm_provider(Orchestrator_load_settings(file), e, SETTINGS_FILE)

---------------------------------------------------------------------------
(* Inputs of the normalizers *)

Patterns == UNION {[1..n -> RawChars] : n \in 1..MaxPat}

TitleLens ==
  (0..MaxShort) \cup ((MAX_TITLE_LENGTH - MaxOver)..(MAX_TITLE_LENGTH + MaxOver))

\* The pattern p repeated to n characters.
Repeat(p, n) == [i \in 1..n |-> p[((i - 1) % Len(p)) + 1]]

\* [1, 1, ..., 1] with n elements.
NumList(n) ==
  IF n = 0 THEN <<Tok("["), Tok("]")>>
  ELSE [i \in 1..(2 * n + 1) |->
          IF i = 1 THEN Tok("[")
          ELSE IF i = 2 * n + 1 THEN Tok("]")
          ELSE IF i % 2 = 0 THEN NumTok(1) ELSE Tok(",")]

\* {"title": <value>} and {"title": <value>, "x": 1}
ObjTitle(value) == <<Tok("{"), StrTok(KEY_TITLE), Tok(":")>> \o value \o <<Tok("}")>>

ObjTitleExtra(value) ==
  <<Tok("{"), StrTok(KEY_TITLE), Tok(":")>> \o value
    \o <<Tok(","), StrTok(<<"x">>), Tok(":"), NumTok(1), Tok("}")>>

ListLens == 0..(MaxShort + 1)

\* Title values that are not strings (lists of each length are tried separately).
OtherValues ==
  <<
   <<Tok("null")>>, <<NumTok(0)>>, <<NumTok(5)>>, <<Tok("true")>>, <<Tok("false")>>,
   <<Tok("{"), Tok("}")>>,
   <<Tok("{"), StrTok(<<"A">>), Tok(":"), NumTok(1), Tok("}")>>
  >>

\* Valid JSON that is not an object, and objects without a (single) title.
OtherShapes ==
  <<
   NumList(0), NumList(1), <<StrTok(<<"A">>)>>, <<NumTok(5)>>, <<Tok("null")>>,
   <<Tok("true")>>,
   <<Tok("{"), Tok("}")>>,
   <<Tok("{"), StrTok(<<"x">>), Tok(":"), StrTok(<<"A">>), Tok("}")>>,
   <<Tok("{"), StrTok(KEY_TITLE), Tok(":"), StrTok(<<"A">>), Tok(","),
     StrTok(KEY_TITLE), Tok(":"), StrTok(<<>>), Tok("}")>>,
   <<Tok("{"), StrTok(KEY_TITLE), Tok(":"), StrTok(<<>>), Tok(","),
     StrTok(KEY_TITLE), Tok(":"), StrTok(<<"A">>), Tok("}")>>
  >>

\* Texts json.loads rejects.
InvalidTexts ==
  <<
   <<>>, <<Tok("junk")>>, <<Tok("junk"), Tok("junk")>>,
   <<Tok("{"), StrTok(KEY_TITLE), Tok(":"), StrTok(<<"A">>)>>,
   <<Tok("{"), StrTok(KEY_TITLE), Tok(":"), Tok("junk")>>,
   <<Tok("{"), StrTok(KEY_TITLE), StrTok(<<"A">>), Tok("}")>>,
   <<Tok("{"), StrTok(KEY_TITLE), Tok(":"), StrTok(<<"A">>), Tok(","), Tok("}")>>,
   <<Tok("{"), Tok("}"), Tok("{"), Tok("}")>>,
   <<Tok("["), NumTok(1), Tok(",")>>,
   <<Tok("["), NumTok(1), Tok(","), Tok("]")>>
  >>

\* raw is one of the inputs of the normalizers.
IsRawInput(r) ==
  \/ \E p \in Patterns, n \in TitleLens :
        r = Text(ObjTitle(<<StrTok(Repeat(p, n))>>))
  \/ \E c \in RawChars, n \in TitleLens :
        r = Text(ObjTitleExtra(<<StrTok(Repeat(<<c>>, n))>>))
  \/ \E n \in ListLens : r = Text(ObjTitle(NumList(n)))
  \/ \E i \in 1..Len(OtherValues) : r = Text(ObjTitle(OtherValues[i]))
  \/ \E i \in 1..Len(OtherShapes) : r = Text(OtherShapes[i])
  \/ \E i \in 1..Len(InvalidTexts) : r = Text(InvalidTexts[i])
  \/ r = NoneText

---------------------------------------------------------------------------
(* The normalizers applied to one input *)

Variants == {"base", "openai", "ollama", "claude"}

Pending == [kind |-> "pending", val |-> PyNone, exc |-> "none"]

IdleRun ==
  /\ pc = "idle"
  /\ calls = <<>>
  /\ document_id = 0
  /\ provider = "none"
  /\ settings = NoSettings
  /\ document_details = PyNone
  /\ new_title = PyNone
  /\ exc = "none"

\* No prompt has been built and no provider created.
NotGenerated == Sent(Generated(Pending, <<>>), TITLE_SCHEMA, "none", ApiError)

IdleBuild ==
  /\ document_text = <<>>
  /\ built_prompt = Pending
  /\ generated = [v \in {"openai", "ollama", "claude"} |-> NotGenerated]
  /\ history = <<>>

NoEnv ==
  [openai_api_key |-> PyNone, ollama_base_url |-> PyNone,
   ollama_api_key |-> PyNone, claude_api_key |-> PyNone]

NothingCreated ==
  [factory |-> NotCreated, orchestrator |-> NotCreated, arguments |-> {}]

IdleCreate ==
  /\ settings_file = SettingsFile("unreadable", {}, PyNone)
  /\ env = NoEnv
  /\ created = NothingCreated

InitParse ==
  /\ IsRawInput(raw)
  /\ results = [v \in Variants |-> Pending]
  /\ IdleRun
  /\ IdleBuild
  /\ IdleCreate

ParseBase ==
  /\ results["base"].kind = "pending"
  /\ results' = [results EXCEPT !["base"] = Base_parse_structured_response(raw)]
  /\ UNCHANGED <<raw, runVars, buildVars, createVars>>

ParseOpenAI ==
  /\ results["openai"].kind = "pending"
  /\ results' = [results EXCEPT !["openai"] = OpenAI_parse_structured_response(raw)]
  /\ UNCHANGED <<raw, runVars, buildVars, createVars>>

ParseOllama ==
  /\ results["ollama"].kind = "pending"
  /\ results' = [results EXCEPT !["ollama"] = Ollama_parse_structured_response(raw)]
  /\ UNCHANGED <<raw, runVars, buildVars, createVars>>

\* The Claude SDK hands over the tool input decoded; a text that is not JSON
\* never becomes a tool input.
ParseClaude ==
  /\ results["claude"].kind = "pending"
  /\ json_loads(raw).kind = "return"
  /\ results' = [results EXCEPT !["claude"] = Claude_inline_title(json_loads(raw).val)]
  /\ UNCHANGED <<raw, runVars, buildVars, createVars>>

NextParse == ParseBase \/ ParseOpenAI \/ ParseOllama \/ ParseClaude

SpecParse == InitParse /\ [][NextParse]_vars

---------------------------------------------------------------------------
(* The orchestrator: PaperlessAITitles.generate_and_update_title *)

KEY_CONTENT == <<"c", "o", "n", "t", "e", "n", "t">>

KEY_ID == <<"i", "d">>

\* d[key]
PyIndex(d, key) ==
  IF d.t # "obj" THEN Raise("TypeError")
  ELSE IF \E i \in 1..Len(d.v) : d.v[i].key = key
  THEN Return(Lookup(d.v, 1, key, PyNone))
  ELSE Raise("KeyError")

\* An outbound call and what came back: status is the HTTP status of the
\* response, 0 when the call raised instead (connection error, timeout).
Call(method, id, body, status) ==
  [method |-> method, id |-> id, body |-> body, status |-> status]

\* What the repository answers to GET /documents/{id}/.
HttpError == [kind |-> "error", status |-> 0, body |-> NoneText]

HttpResponse(status, body) == [kind |-> "response", status |-> status, body |-> body]

DocTitle == <<Tok("{"), StrTok(KEY_ID), Tok(":"), NumTok(123), Tok(","),
              StrTok(<<"t", "i", "t", "l", "e">>), Tok(":"), StrTok(<<"U">>)>>

DocBodies ==
  <<
   \* {"id": 123, "title": "U", "content": "AWS"}
   DocTitle \o <<Tok(","), StrTok(KEY_CONTENT), Tok(":"),
                 StrTok(<<"A", "W", "S">>), Tok("}")>>,
   \* {"id": 123, "title": "U", "content": ""}
   DocTitle \o <<Tok(","), StrTok(KEY_CONTENT), Tok(":"), StrTok(<<>>), Tok("}")>>,
   \* {"id": 123, "title": "U"}
   DocTitle \o <<Tok("}")>>,
   \* {"content": "AWS"}
   <<Tok("{"), StrTok(KEY_CONTENT), Tok(":"), StrTok(<<"A", "W", "S">>), Tok("}")>>,
   \* {}
   <<Tok("{"), Tok("}")>>,
   \* not JSON
   <<Tok("junk")>>
  >>

ErrorStatuses == {404, 500}

\* Mutant: a non-200 answer raises, as PaperlessClient.get_document does.
get_document_details_raising(http) ==
  IF http.kind = "error" THEN Raise("ConnectionError")
  ELSE IF http.status = 200 THEN json_loads(http.body)
  ELSE Raise("PaperlessAPIError")

\* PaperlessAITitles.__get_document_details: requests.get is outside every try
\* block; response.json() decodes the body.
get_document_details(http) ==
  IF http.kind = "error" THEN Raise("ConnectionError")
  ELSE IF http.status = 200 THEN json_loads(http.body)
  ELSE Return(PyNone)

\* Mutant: the title is stripped to its first character before it is sent.
update_payload_cut(title) ==
  JObj(<<[key |-> KEY_TITLE, val |-> PySlice(title, 1).val]>>)

\* payload = {"title": new_title}
update_payload(title) == JObj(<<[key |-> KEY_TITLE, val |-> title]>>)

\* Settings of the provider the orchestrator was constructed with.
PromptOnly(main) ==
  [loaded |-> TRUE, keys |-> {"prompt"}, with_date |-> FALSE,
   prompt |-> [keys |-> {"main"}, main |-> main, with_date |-> <<>>, no_date |-> <<>>,
               pre_content |-> <<>>, post_content |-> <<>>],
   models |-> NoModels]

SettingsChoices ==
  <<
   NoSettings,
   \* llm_provider only, no prompt block
   [NoSettings EXCEPT !.loaded = TRUE, !.keys = {"llm_provider"}],
   \* prompt: {main: "T:"}
   PromptOnly(<<"T", ":">>),
   \* prompt: {main: ""}
   PromptOnly(<<>>),
   \* with_date: true and a full prompt block
   [loaded |-> TRUE, keys |-> {"llm_provider", "with_date", "prompt"}, with_date |-> TRUE,
    prompt |-> [keys |-> {"main", "with_date", "no_date", "pre_content", "post_content"},
                main |-> <<"T">>, with_date |-> <<"D">> \o PLACEHOLDER,
                no_date |-> <<"N">>, pre_content |-> <<":">>, post_content |-> <<".">>],
    models |-> NoModels]
  >>

\* Structured contents the LLM may answer with.
LlmContents ==
  <<
   Text(ObjTitle(<<StrTok(<<"A", "W", "S">>)>>)),
   Text(ObjTitle(<<StrTok(Repeat(<<"A">>, MAX_TITLE_LENGTH + 1))>>)),
   Text(ObjTitle(<<StrTok(<<>>)>>)),
   Text(ObjTitle(NumList(1))),
   Text(<<Tok("junk")>>),
   NoneText
  >>

DocumentIds == {123, 999}

Init ==
  /\ raw = NoneText
  /\ results = [v \in Variants |-> Pending]
  /\ pc = "start"
  /\ calls = <<>>
  /\ document_id \in DocumentIds
  /\ provider \in {"openai", "ollama"}
  /\ \E i \in 1..Len(SettingsChoices) : settings = SettingsChoices[i]
  /\ document_details = PyNone
  /\ new_title = PyNone
  /\ exc = "none"
  /\ IdleBuild
  /\ IdleCreate

\* document_details = self.__get_document_details(document_id), then the test
\* `if document_details:` and the print of document_details['title'].
Fetch(http) ==
  LET r == get_document_details(http)
      sent == Append(calls, Call("GET", document_id, PyNone, http.status))
  IN
  /\ pc = "start"
  /\ calls' = sent
  /\ IF r.kind = "raise"
     THEN /\ pc' = "raised"
          /\ exc' = r.exc
          /\ UNCHANGED document_details
     ELSE /\ document_details' = r.val
          /\ IF ~Truthy(r.val)
             THEN pc' = "done" /\ UNCHANGED exc
             ELSE IF PyIndex(r.val, KEY_TITLE).kind = "raise"
             THEN pc' = "raised" /\ exc' = PyIndex(r.val, KEY_TITLE).exc
             ELSE pc' = "fetched" /\ UNCHANGED exc
  /\ UNCHANGED <<raw, results, document_id, provider, settings, new_title>>
  /\ UNCHANGED <<buildVars, createVars>>

GetDocumentDetails ==
  \/ Fetch(HttpError)
  \/ \E st \in ErrorStatuses : Fetch(HttpResponse(st, Text(<<Tok("{"), Tok("}")>>)))
  \/ \E i \in 1..Len(DocBodies) : Fetch(HttpResponse(200, Text(DocBodies[i])))

\* Mutant: the update follows whatever the provider returned.
Generate_unguarded(api) ==
  LET content == PyGet(document_details, KEY_CONTENT, EMPTY_STR).val
      g == generate_title_from_text(provider, settings, content.v, api)
  IN
  /\ pc = "fetched"
  /\ calls' = calls \o [i \in 1..Len(g.requests) |->
                          Call("LLM", 0, g.requests[i], IF api.kind = "error" THEN 0 ELSE 200)]
  /\ IF g.outcome.kind = "raise"
     THEN pc' = "raised" /\ exc' = g.outcome.exc /\ UNCHANGED new_title
     ELSE /\ new_title' = g.outcome.val
          /\ pc' = "generated"
          /\ UNCHANGED exc
  /\ UNCHANGED <<raw, results, document_id, provider, settings, document_details>>
  /\ UNCHANGED <<buildVars, createVars>>

\* content = document_details.get("content", ""), then
\* new_title = self.ai.generate_title_from_text(content) and `if new_title:`.
Generate(api) ==
  LET content == PyGet(document_details, KEY_CONTENT, EMPTY_STR).val
      g == generate_title_from_text(provider, settings, content.v, api)
  IN
  /\ pc = "fetched"
  /\ calls' = calls \o [i \in 1..Len(g.requests) |->
                          Call("LLM", 0, g.requests[i], IF api.kind = "error" THEN 0 ELSE 200)]
  /\ IF g.outcome.kind = "raise"
     THEN pc' = "raised" /\ exc' = g.outcome.exc /\ UNCHANGED new_title
     ELSE /\ new_title' = g.outcome.val
          /\ pc' = IF Truthy(g.outcome.val) THEN "generated" ELSE "done"
          /\ UNCHANGED exc
  /\ UNCHANGED <<raw, results, document_id, provider, settings, document_details>>
  /\ UNCHANGED <<buildVars, createVars>>

GenerateTitle ==
  \/ Generate(ApiError)
  \/ Generate(ApiEmptyEnvelope)
  \/ \E i \in 1..Len(LlmContents) : Generate(ApiResponse(LlmContents[i]))

\* Mutant: a PATCH that was answered with an error status is sent once more.
Update_retry(http) ==
  LET patch == Call("PATCH", document_id, update_payload(new_title), http.status) IN
  /\ pc = "generated"
  /\ calls' = IF http.kind = "response" /\ http.status # 200
              THEN calls \o <<patch, patch>>
              ELSE Append(calls, patch)
  /\ IF http.kind = "error"
     THEN pc' = "raised" /\ exc' = "ConnectionError"
     ELSE pc' = "done" /\ UNCHANGED exc
  /\ UNCHANGED <<raw, results, document_id, provider, settings, document_details, new_title>>
  /\ UNCHANGED <<buildVars, createVars>>

\* self.__update_document_title(document_id, new_title): requests.patch is outside
\* every try block; the status is only printed.
Update(http) ==
  /\ pc = "generated"
  /\ calls' = Append(calls, Call("PATCH", document_id, update_payload(new_title), http.status))
  /\ IF http.kind = "error"
     THEN pc' = "raised" /\ exc' = "ConnectionError"
     ELSE pc' = "done" /\ UNCHANGED exc
  /\ UNCHANGED <<raw, results, document_id, provider, settings, document_details, new_title>>
  /\ UNCHANGED <<buildVars, createVars>>

UpdateDocumentTitle ==
  \/ Update(HttpError)
  \/ \E st \in ErrorStatuses \cup {200} : Update(HttpResponse(st, Text(<<Tok("{"), Tok("}")>>)))

Next == GetDocumentDetails \/ GenerateTitle \/ UpdateDocumentTitle

Spec == Init /\ [][Next]_vars

---------------------------------------------------------------------------
(* Creating a provider: LLMFactory.create_provider and PaperlessAITitles(...) *)

PROVIDER_GROK == <<"g", "r", "o", "k">>

\* Every upper/lower-case spelling of a name.
CaseVariants(n) ==
  {[i \in 1..Len(n) |-> IF i \in U THEN UpperChar(n[i]) ELSE n[i]] :
     U \in SUBSET (1..Len(n))}

\* Values of llm_provider in the settings file.
ConfiguredNames ==
  CaseVariants(PROVIDER_OPENAI) \cup CaseVariants(PROVIDER_OLLAMA)
    \cup CaseVariants(PROVIDER_CLAUDE) \cup CaseVariants(PROVIDER_GROK)
    \cup {<<>>, <<" ", "o", "p", "e", "n", "a", "i">>,
          <<"o", "p", "e", "n", "_", "a", "i">>}

\* llm_provider: null and llm_provider: 1
NonStringNames == <<PyNone, JNum(1)>>

\* A credential in the environment: unset, empty, blank, or set.
CredValues == <<PyNone, JStr(<<>>), JStr(<<" ">>), JStr(<<"k">>)>>

\* Keyword arguments of the constructor call: the signature's own, and with the
\* ollama_api_key (change_title.py) or the claude_api_key on top.
CallShapes ==
  {INIT_PARAMETERS, INIT_PARAMETERS \cup {"ollama_api_key"},
   INIT_PARAMETERS \cup {"claude_api_key"}}

InitCreate ==
  /\ raw = NoneText
  /\ results = [v \in Variants |-> Pending]
  /\ IdleRun
  /\ IdleBuild
  /\ \/ settings_file = SettingsFile("unreadable", {}, PyNone)
     \/ settings_file = SettingsFile("empty", {}, PyNone)
     \/ settings_file = SettingsFile("mapping", {}, PyNone)
     \/ \E n \in ConfiguredNames :
          settings_file = SettingsFile("mapping", {"llm_provider"}, JStr(n))
     \/ \E i \in 1..Len(NonStringNames) :
          settings_file = SettingsFile("mapping", {"llm_provider"}, NonStringNames[i])
  /\ \E a \in {1, 2, 4}, b \in {1, 2, 4}, c \in 1..Len(CredValues), d \in {1, 4} :
        env = [openai_api_key |-> CredValues[a], ollama_base_url |-> CredValues[b],
               ollama_api_key |-> CredValues[c], claude_api_key |-> CredValues[d]]
  /\ created = NothingCreated

\* factory.create_provider(provider_name, openai_api_key, ollama_base_url,
\* ollama_api_key, settings_file) with the configured name.
FactoryCreate ==
  /\ created.factory.kind = "pending"
  /\ settings_file.kind = "mapping"
  /\ "llm_provider" \in settings_file.keys
  /\ created' = [created EXCEPT
                   !.factory = create_provider(settings_file.llm_provider, env, SETTINGS_FILE)]
  /\ UNCHANGED <<parseVars, runVars, buildVars, settings_file, env>>

\* PaperlessAITitles(...) called with the keyword arguments `arguments`.
OrchestratorCreate(arguments) ==
  /\ created.orchestrator.kind = "pending"
  /\ created' = [created EXCEPT
                   !.orchestrator = PaperlessAITitles_new(arguments, settings_file, env),
                   !.arguments = arguments]
  /\ UNCHANGED <<parseVars, runVars, buildVars, settings_file, env>>

NextCreate == FactoryCreate \/ \E arguments \in CallShapes : OrchestratorCreate(arguments)

SpecCreate == InitCreate /\ [][NextCreate]_vars

---------------------------------------------------------------------------
(* Building the prompt and generating a title: _build_prompt and the three   *)
(* generate_title_from_text, on one settings value and one document text.   *)

\* A with_date template holds up to MaxCopies copies of the placeholder.
MaxCopies == 2

\* "{curr" and "ent_date}": the placeholder cut in two.
PLACEHOLDER_HEAD == SubSeq(PLACEHOLDER, 1, 5)

PLACEHOLDER_TAIL == SubSeq(PLACEHOLDER, 6, Len(PLACEHOLDER))

\* "D{current_date}" k times, then the tail; and what it is with today's date
\* in the place of every placeholder.
RECURSIVE Template(_, _), Dated(_, _)
Template(k, tail) == IF k = 0 THEN tail ELSE <<"D">> \o PLACEHOLDER \o Template(k - 1, tail)

Dated(k, tail) == IF k = 0 THEN tail ELSE <<"D">> \o TODAY \o Dated(k - 1, tail)

TemplateTails == <<<<>>, PLACEHOLDER_HEAD, PLACEHOLDER_TAIL>>

\* Values of the prompt sub-keys and document texts.
MainChoices == <<<<>>, <<"T">>, PLACEHOLDER_HEAD>>

NoDateChoices == <<<<"N">>>>

PreContentChoices == <<<<>>, <<":">>, PLACEHOLDER_TAIL>>

PostContentChoices == <<<<".">>>>

Texts == <<<<>>, <<"A", "W", "S">>, PLACEHOLDER, TODAY>>

\* The i-th choice, nothing for i = 0 (the sub-key is missing).
Choice(choices, i) == IF i = 0 THEN <<>> ELSE choices[i]

\* The prompt block with the sub-keys chosen: m, n, p, q index the choices of
\* main, no_date, pre_content and post_content, 0 for a missing sub-key; w is
\* "none" for a missing with_date template, else [copies, tail].
PromptBlock(m, w, n, p, q) ==
  [keys |-> {k \in {"main", "with_date", "no_date", "pre_content", "post_content"} :
               \/ k = "main" /\ m # 0
               \/ k = "with_date" /\ w.present
               \/ k = "no_date" /\ n # 0
               \/ k = "pre_content" /\ p # 0
               \/ k = "post_content" /\ q # 0},
   main |-> Choice(MainChoices, m),
   with_date |-> IF w.present THEN Template(w.copies, TemplateTails[w.tail]) ELSE <<>>,
   no_date |-> Choice(NoDateChoices, n),
   pre_content |-> Choice(PreContentChoices, p),
   post_content |-> Choice(PostContentChoices, q)]

TemplateChoices ==
  {[present |-> FALSE, copies |-> 0, tail |-> 1]}
    \cup {[present |-> TRUE, copies |-> k, tail |-> t] :
            k \in 0..MaxCopies, t \in 1..Len(TemplateTails)}

\* with_date of the settings: missing, true or false.
WithDateChoices == {"missing", "true", "false"}

InitPrompt ==
  /\ raw = NoneText
  /\ results = [v \in Variants |-> Pending]
  /\ pc = "idle"
  /\ calls = <<>>
  /\ document_id = 0
  /\ provider = "none"
  /\ document_details = PyNone
  /\ new_title = PyNone
  /\ exc = "none"
  /\ IdleCreate
  /\ \/ settings = NoSettings
     \/ settings = [NoSettings EXCEPT !.loaded = TRUE]
     \/ \E d \in WithDateChoices :
          settings = [NoSettings EXCEPT !.loaded = TRUE,
                                        !.keys = {"llm_provider"} \cup
                                                 (IF d = "missing" THEN {} ELSE {"with_date"}),
                                        !.with_date = (d = "true")]
     \/ \E d \in WithDateChoices, m \in 0..Len(MainChoices), w \in TemplateChoices,
           n \in 0..Len(NoDateChoices), p \in 0..Len(PreContentChoices),
           q \in 0..Len(PostContentChoices) :
          settings = [loaded |-> TRUE,
                      keys |-> {"prompt"} \cup (IF d = "missing" THEN {} ELSE {"with_date"}),
                      with_date |-> (d = "true"),
                      prompt |-> PromptBlock(m, w, n, p, q),
                      models |-> NoModels]
  /\ \E i \in 1..Len(Texts) : document_text = Texts[i]
  /\ built_prompt = Pending
  /\ generated = [v \in {"openai", "ollama", "claude"} |-> NotGenerated]
  /\ history = <<>>

NothingCalled ==
  /\ built_prompt.kind = "pending"
  /\ \A v \in {"openai", "ollama", "claude"} : generated[v].outcome.kind = "pending"

\* self._build_prompt(text)
BuildPrompt ==
  /\ NothingCalled
  /\ built_prompt' = build_prompt(settings, document_text)
  /\ UNCHANGED <<parseVars, runVars, createVars, document_text, generated, history>>

\* provider.generate_title_from_text(text), the remote API answering `api`.
GenerateWith(prov, api) ==
  /\ NothingCalled
  /\ generated' = [generated EXCEPT ![prov] = provider_generate(prov, settings, document_text, api)]
  /\ UNCHANGED <<parseVars, runVars, createVars, document_text, built_prompt, history>>

GenerateFromText ==
  \E prov \in {"openai", "ollama", "claude"} :
    \/ GenerateWith(prov, ApiError)
    \/ GenerateWith(prov, ApiModelNotFound)
    \/ GenerateWith(prov, ApiEmptyEnvelope)
    \/ \E i \in 1..Len(LlmContents) : GenerateWith(prov, ApiResponse(LlmContents[i]))

NextPrompt == BuildPrompt \/ GenerateFromText

SpecPrompt == InitPrompt /\ [][NextPrompt]_vars

---------------------------------------------------------------------------
(* The model id of a request: the providers called with settings whose      *)
(* per-provider object and legacy flat key vary, the prompt block fixed.    *)

NestedModels == {"none", "gpt-4o"}

FlatModels == {"none", "gpt-3.5-turbo"}

\* What a settings file can say about one provider's model; a `model` entry
\* needs the nested dict.
ModelEntries ==
  {ModelEntry(n, m, f) : n \in {"missing", "other", "dict"}, m \in NestedModels,
                         f \in FlatModels} \ 
  {ModelEntry(n, m, f) : n \in {"missing", "other"}, m \in NestedModels \ {"none"},
                         f \in FlatModels}

\* The top-level keys the model entries put into the settings dict.
ModelKeys(ms) ==
  {v \in {"openai", "ollama", "claude"} : ms[v].nested # "missing"} \cup
  {"openai_model" : v \in {w \in {"openai"} : ms[w].flat # "none"}} \cup
  {"ollama_model" : v \in {w \in {"ollama"} : ms[w].flat # "none"}} \cup
  {"claude_model" : v \in {w \in {"claude"} : ms[w].flat # "none"}}

InitModel ==
  /\ raw = NoneText
  /\ results = [v \in Variants |-> Pending]
  /\ pc = "idle"
  /\ calls = <<>>
  /\ document_id = 0
  /\ provider = "none"
  /\ document_details = PyNone
  /\ new_title = PyNone
  /\ exc = "none"
  /\ IdleCreate
  /\ \E ms \in [{"openai", "ollama", "claude"} -> ModelEntries] :
       settings = [PromptOnly(<<"T", ":">>) EXCEPT !.keys = {"prompt"} \cup ModelKeys(ms),
                                                    !.models = ms]
  /\ document_text = <<"A", "W", "S">>
  /\ built_prompt = Pending
  /\ generated = [v \in {"openai", "ollama", "claude"} |-> NotGenerated]
  /\ history = <<>>

SpecModel == InitModel /\ [][NextPrompt]_vars

---------------------------------------------------------------------------
(* The life of one provider instance: constructed from a settings file,    *)
(* then asked for titles.                                                   *)

\* The most calls of generate_title_from_text followed on one instance.
MaxGenerateCalls == 2

\* The outcome of loading the settings file.
Loaded(st) == [kind |-> "return", settings |-> st, exc |-> "none"]

LoadFailed(e) == [kind |-> "raise", settings |-> NoSettings, exc |-> e]

\* Mutant: the failure to read the file is not caught.
Base_load_settings_uncaught(file, content) ==
  IF file.kind = "unreadable" THEN LoadFailed("FileNotFoundError")
  ELSE IF file.kind = "empty" THEN Loaded(NoSettings)
  ELSE Loaded(content)

\* BaseLLMProvider._load_settings: yaml.safe_load of the opened file (None for
\* a file without content, `content` for a mapping), None after any exception.
Base_load_settings(file, content) ==
  IF file.kind = "unreadable" THEN Loaded(NoSettings)
  ELSE IF file.kind = "empty" THEN Loaded(NoSettings)
  ELSE Loaded(content)

\* The class of each provider name.
ClassOf(prov) ==
  CASE prov = "openai" -> "OpenAITitles"
    [] prov = "ollama" -> "OllamaTitles"
    [] prov = "claude" -> "ClaudeTitles"

ProviderTexts == <<<<>>, <<"A", "W", "S">>>>

InitProvider ==
  /\ raw = NoneText
  /\ results = [v \in Variants |-> Pending]
  /\ pc = "new"
  /\ calls = <<>>
  /\ document_id = 0
  /\ provider \in {"openai", "ollama", "claude"}
  /\ settings = NoSettings
  /\ document_details = PyNone
  /\ new_title = PyNone
  /\ exc = "none"
  /\ IdleBuild
  /\ settings_file \in {SettingsFile(k, {}, PyNone) : k \in {"unreadable", "empty", "mapping"}}
  /\ env = NoEnv
  /\ created = NothingCreated

\* OpenAITitles(key, settings_file), OllamaTitles(url, settings_file) or
\* ClaudeTitles(key, settings_file): the client is created and
\* BaseLLMProvider.__init__ stores the loaded settings; `content` is the mapping
\* a readable file holds.
NewProvider(content) ==
  LET made == Construct(ClassOf(provider), <<"credential", "settings_file">>)
      loaded == Base_load_settings(settings_file, content)
  IN
  /\ pc = "new"
  /\ IF made.kind = "raise"
     THEN pc' = "raised" /\ exc' = made.exc /\ UNCHANGED settings
     ELSE IF loaded.kind = "raise"
     THEN pc' = "raised" /\ exc' = loaded.exc /\ UNCHANGED settings
     ELSE pc' = "constructed" /\ settings' = loaded.settings /\ UNCHANGED exc
  /\ UNCHANGED <<parseVars, calls, document_id, provider, document_details, new_title>>
  /\ UNCHANGED <<buildVars, createVars>>

\* One more call of generate_title_from_text(text) on the instance, the remote
\* API answering `api`; an exception the call raises leaves the instance usable.
ProviderGenerate(text, api) ==
  LET g == provider_generate(provider, settings, text, api) IN
  /\ pc = "constructed"
  /\ Len(history) < MaxGenerateCalls
  /\ document_text' = text
  /\ generated' = [generated EXCEPT ![provider] = g]
  /\ history' = Append(history, g)
  /\ UNCHANGED <<parseVars, runVars, createVars, built_prompt>>

ProviderCalls ==
  \E t \in 1..Len(ProviderTexts) :
    \/ ProviderGenerate(ProviderTexts[t], ApiError)
    \/ ProviderGenerate(ProviderTexts[t], ApiModelNotFound)
    \/ ProviderGenerate(ProviderTexts[t], ApiEmptyEnvelope)
    \/ \E i \in 1..Len(LlmContents) : ProviderGenerate(ProviderTexts[t], ApiResponse(LlmContents[i]))

NextProvider ==
  \/ \E i \in 1..Len(SettingsChoices) : NewProvider(SettingsChoices[i])
  \/ ProviderCalls

SpecProvider == InitProvider /\ [][NextProvider]_vars

---------------------------------------------------------------------------
(* A whole run: the orchestrator is constructed, by change_title.main or by *)
(* a caller that follows the constructor's signature, and then asked to     *)
(* generate and update the title.                                           *)

\* The arguments of PaperlessAITitles(...) in change_title.main, which passes
\* the ollama_api_key as well, and of a call with the signature's parameters.
MAIN_ARGUMENTS == INIT_PARAMETERS \cup {"ollama_api_key"}

RunCallShapes == {MAIN_ARGUMENTS, INIT_PARAMETERS}

RunNames == {PROVIDER_OPENAI, PROVIDER_OLLAMA, PROVIDER_CLAUDE}

InitRun ==
  /\ raw = NoneText
  /\ results = [v \in Variants |-> Pending]
  /\ pc = "new"
  /\ calls = <<>>
  /\ document_id \in DocumentIds
  /\ provider = "none"
  /\ settings = NoSettings
  /\ document_details = PyNone
  /\ new_title = PyNone
  /\ exc = "none"
  /\ IdleBuild
  /\ \/ settings_file = SettingsFile("unreadable", {}, PyNone)
     \/ settings_file = SettingsFile("empty", {}, PyNone)
     \/ settings_file = SettingsFile("mapping", {}, PyNone)
     \/ \E n \in RunNames : settings_file = SettingsFile("mapping", {"llm_provider"}, JStr(n))
  /\ \E a \in {1, 4}, b \in {1, 4} :
        env = [NoEnv EXCEPT !.openai_api_key = CredValues[a],
                            !.ollama_base_url = CredValues[b]]
  /\ created = NothingCreated

\* The provider name of a provider class.
NameOf(cls) == IF cls = "OllamaTitles" THEN "ollama" ELSE "openai"

\* ai = PaperlessAITitles(...): an exception of the constructor ends the run;
\* else the provider it created holds the settings it loaded from the same
\* file, whose mapping is `content` with the file's llm_provider key.
CreateOrchestrator(arguments, content) ==
  LET made == PaperlessAITitles_new(arguments, settings_file, env)
      mapping == [content EXCEPT !.keys = (@ \ {"llm_provider"}) \cup settings_file.keys]
  IN
  /\ pc = "new"
  /\ content.loaded
  /\ created' = [created EXCEPT !.orchestrator = made, !.arguments = arguments]
  /\ IF made.kind = "raise"
     THEN pc' = "raised" /\ exc' = made.exc /\ UNCHANGED <<provider, settings>>
     ELSE /\ pc' = "start"
          /\ provider' = NameOf(made.cls)
          /\ settings' = Base_load_settings(settings_file, mapping).settings
          /\ UNCHANGED exc
  /\ UNCHANGED <<parseVars, calls, document_id, document_details, new_title>>
  /\ UNCHANGED <<buildVars, settings_file, env>>

NextRun ==
  \/ \E arguments \in RunCallShapes, i \in 1..Len(SettingsChoices) :
       CreateOrchestrator(arguments, SettingsChoices[i])
  \/ Next

SpecRun == InitRun /\ [][NextRun]_vars

---------------------------------------------------------------------------
(* The standalone script ngx-renamer-standalone.py: configuration from the *)
(* environment, one document per run.                                       *)

\* The script's two prompt texts, shortened to a few characters.
DEFAULT_PROMPT == <<"P", ":">>

DATE_SUFFIX_PROMPT == <<"D", ":">> \o PLACEHOLDER \o <<".">>

\* os.environ.get(name) of the variables the script reads.
StandaloneEnv(id, openai_key, paperless_key, with_date, title_prompt) ==
  [DOCUMENT_ID |-> id, OPENAI_API_KEY |-> openai_key,
   PAPERLESS_NGX_API_KEY |-> paperless_key, TITLE_WITH_DATE |-> with_date,
   TITLE_PROMPT |-> title_prompt]

\* os.environ.get('TITLE_WITH_DATE', 'false').lower() in ('true', '1', 'yes')
TITLE_WITH_DATE(e) ==
  LET value == IF e.TITLE_WITH_DATE.t = "None" THEN <<"f", "a", "l", "s", "e">>
               ELSE e.TITLE_WITH_DATE.v
  IN PyLower(value) \in {<<"t", "r", "u", "e">>, <<"1">>, <<"y", "e", "s">>}

\* s.strip(): s without its leading and trailing whitespace.
PyStrip(s) ==
  LET kept == {i \in 1..Len(s) : s[i] \notin {" ", "LF", "TAB"}} IN
  IF kept = {} THEN <<>>
  ELSE SubSeq(s, CHOOSE i \in kept : \A j \in kept : i <= j,
                 CHOOSE i \in kept : \A j \in kept : i >= j)

\* Mutant: the three dots are added to the first 127 characters.
truncate_title_after_127(title) ==
  IF Len(title) > 127 THEN SubSeq(title, 1, 127) \o <<".", ".", ".">> ELSE title

\* if len(title) > 127: title = title[:124] + "..."
truncate_title(title) ==
  IF Len(title) > 127 THEN SubSeq(title, 1, 124) \o <<".", ".", ".">> ELSE title

\* What the OpenAI API does with the script's request: `content` is
\* response.choices[0].message.content, a string or None.
StandaloneResponse(content) == [kind |-> "response", envelope |-> "ok", content |-> content]

StandaloneNoChoices == [kind |-> "response", envelope |-> "empty", content |-> PyNone]

StandaloneApiError == [kind |-> "error", envelope |-> "none", content |-> PyNone]

\* generate_title(content): every exception inside is caught and gives None;
\* the prompt is put together before the request, so content that is no string
\* fails ("\n\n" + content) before any request is sent.
generate_title(content, e, api) ==
  IF content.t # "str" THEN Generated(Return(PyNone), <<>>)
  ELSE
    LET head == IF e.TITLE_PROMPT.t = "None" THEN DEFAULT_PROMPT ELSE e.TITLE_PROMPT.v
        date_prompt == IF TITLE_WITH_DATE(e)
                       THEN PyReplace(DATE_SUFFIX_PROMPT, PLACEHOLDER, TODAY)
                       ELSE <<>>
        prompt == JStr(head \o date_prompt \o <<"LF", "LF">> \o content.v)
    IN
    IF api.kind = "error" THEN Generated(Return(PyNone), <<prompt>>)
    ELSE IF api.envelope = "empty" THEN Generated(Return(PyNone), <<prompt>>)
    ELSE IF api.content.t # "str" THEN Generated(Return(PyNone), <<prompt>>)
    ELSE Generated(Return(JStr(truncate_title(PyStrip(api.content.v)))), <<prompt>>)

\* The script's get_document_details: response.json() for status 200, None for
\* any other status and after any exception (transport, undecodable body).
Standalone_get_document_details(http) ==
  IF http.kind = "error" THEN Return(PyNone)
  ELSE IF http.status = 200
  THEN IF json_loads(http.body).kind = "raise" THEN Return(PyNone) ELSE json_loads(http.body)
  ELSE Return(PyNone)

\* The script's update_document_title: True for status 200, else False.
Standalone_update_document_title(http) == http.kind = "response" /\ http.status = 200

EnvValues == <<PyNone, JStr(<<>>), JStr(<<"1", "2", "3">>)>>

WithDateValues ==
  <<PyNone, JStr(<<"t", "r", "u", "e">>), JStr(<<"T", "r", "u", "e">>), JStr(<<"1">>),
    JStr(<<"y", "e", "s">>), JStr(<<"f", "a", "l", "s", "e">>), JStr(<<"o", "n">>)>>

TitlePromptValues == <<PyNone, JStr(<<"Q", ":">>)>>

\* What the model answers: titles of the lengths around the limit, bare or
\* wrapped in whitespace, whitespace only, or no content.
StandaloneAnswers ==
  {JStr(Repeat(<<"A", "B">>, n)) : n \in TitleLens} \cup
  {JStr(<<" ">> \o Repeat(<<"A", "B">>, n) \o <<"LF">>) : n \in TitleLens} \cup
  {JStr(<<" ", "TAB">>)}

InitStandalone ==
  /\ raw = PyNone
  /\ results = [v \in Variants |-> Pending]
  /\ pc = "new"
  /\ calls = <<>>
  /\ document_id = 0
  /\ provider = "none"
  /\ settings = NoSettings
  /\ document_details = PyNone
  /\ new_title = PyNone
  /\ exc = "none"
  /\ IdleBuild
  /\ settings_file = SettingsFile("unreadable", {}, PyNone)
  /\ \E a, b, c \in {1, 2, 3}, d \in 1..Len(WithDateValues), p \in 1..Len(TitlePromptValues) :
       env = StandaloneEnv(EnvValues[a], EnvValues[b], EnvValues[c], WithDateValues[d],
                           TitlePromptValues[p])
  /\ created = NothingCreated

\* main(): the three configuration checks, each ending the run with exit code 1.
ValidateConfiguration ==
  /\ pc = "new"
  /\ pc' = IF ~Truthy(env.DOCUMENT_ID) \/ ~Truthy(env.OPENAI_API_KEY)
              \/ ~Truthy(env.PAPERLESS_NGX_API_KEY)
           THEN "exit_1" ELSE "start"
  /\ UNCHANGED <<parseVars, calls, document_id, provider, settings, document_details,
                 new_title, exc, buildVars, createVars>>

\* document = get_document_details(DOCUMENT_ID); `if not document` exits 1;
\* document['title'] is printed; content = document.get("content", "") and
\* `if not content` exits 0.
StandaloneFetch(http) ==
  LET document == Standalone_get_document_details(http).val IN
  /\ pc = "start"
  /\ calls' = Append(calls, Call("GET", env.DOCUMENT_ID.v, PyNone, http.status))
  /\ document_details' = document
  /\ IF ~Truthy(document) THEN pc' = "exit_1" /\ UNCHANGED exc
     ELSE IF PyIndex(document, KEY_TITLE).kind = "raise"
     THEN pc' = "raised" /\ exc' = PyIndex(document, KEY_TITLE).exc
     ELSE IF ~Truthy(PyGet(document, KEY_CONTENT, EMPTY_STR).val)
     THEN pc' = "exit_0" /\ UNCHANGED exc
     ELSE pc' = "fetched" /\ UNCHANGED exc
  /\ UNCHANGED <<parseVars, document_id, provider, settings, new_title, buildVars, createVars>>

StandaloneGetDocumentDetails ==
  \/ StandaloneFetch(HttpError)
  \/ \E st \in ErrorStatuses : StandaloneFetch(HttpResponse(st, Text(<<Tok("{"), Tok("}")>>)))
  \/ \E i \in 1..Len(DocBodies) : StandaloneFetch(HttpResponse(200, Text(DocBodies[i])))

\* new_title = generate_title(content); `if not new_title` exits 1. `raw` keeps
\* the content of the model's answer.
StandaloneGenerate(api) ==
  LET content == PyGet(document_details, KEY_CONTENT, EMPTY_STR).val
      g == generate_title(content, env, api)
  IN
  /\ pc = "fetched"
  /\ calls' = calls \o [i \in 1..Len(g.requests) |->
                          Call("LLM", <<>>, g.requests[i],
                               IF api.kind = "error" THEN 0 ELSE 200)]
  /\ raw' = api.content
  /\ new_title' = g.outcome.val
  /\ pc' = IF Truthy(g.outcome.val) THEN "generated" ELSE "exit_1"
  /\ UNCHANGED <<results, document_id, provider, settings, document_details, exc,
                 buildVars, createVars>>

StandaloneGenerateTitle ==
  \/ StandaloneGenerate(StandaloneApiError)
  \/ StandaloneGenerate(StandaloneNoChoices)
  \/ StandaloneGenerate(StandaloneResponse(PyNone))
  \/ \E answer \in StandaloneAnswers : StandaloneGenerate(StandaloneResponse(answer))

\* success = update_document_title(DOCUMENT_ID, new_title), then exit 0 or 1.
StandaloneUpdate(http) ==
  /\ pc = "generated"
  /\ calls' = Append(calls, Call("PATCH", env.DOCUMENT_ID.v, update_payload(new_title),
                                 http.status))
  /\ pc' = IF Standalone_update_document_title(http) THEN "exit_0" ELSE "exit_1"
  /\ UNCHANGED <<parseVars, document_id, provider, settings, document_details, new_title,
                 exc, buildVars, createVars>>

StandaloneUpdateDocumentTitle ==
  \/ StandaloneUpdate(HttpError)
  \/ \E st \in ErrorStatuses \cup {200} :
       StandaloneUpdate(HttpResponse(st, Text(<<Tok("{"), Tok("}")>>)))

NextStandalone ==
  \/ ValidateConfiguration
  \/ StandaloneGetDocumentDetails
  \/ StandaloneGenerateTitle
  \/ StandaloneUpdateDocumentTitle

SpecStandalone == InitStandalone /\ [][NextStandalone]_vars

---------------------------------------------------------------------------
(* Claims about the normalizers (checked under SpecParse) *)

\* The three normalizers that take the raw JSON text.
TextVariants == {"base", "openai", "ollama"}

Whitespace == {" ", "LF", "TAB"}

\* raw is a JSON object: its `title` entry, or this marker when it has none.
Absent == [t |-> "absent", v |-> 0]

IsObject(r) == json_loads(r).kind = "return" /\ json_loads(r).val.t = "obj"

TitleOf(r) == Lookup(json_loads(r).val.v, 1, KEY_TITLE, Absent)

HasStringTitle(r) == IsObject(r) /\ TitleOf(r).t = "str" /\ Len(TitleOf(r).v) > 0

SameOutcome(a, b) ==
  /\ a.kind = b.kind
  /\ a.exc = b.exc
  /\ a.val.t = b.val.t
  /\ a.val.v = b.val.v

ReturnsNone(r) == r.kind = "return" /\ r.val.t = "None"

\* C1: for a JSON object whose title is a non-empty string t, the normalizer
\* returns t itself when t has at most 127 characters and the first 127
\* characters of t otherwise (characters, not bytes).
C1_TruncateTo127 ==
  \A v \in TextVariants :
    (results[v].kind # "pending" /\ HasStringTitle(raw)) =>
      LET t == TitleOf(raw).v IN
        /\ results[v].kind = "return"
        /\ results[v].val.t = "str"
        /\ results[v].val.v = IF Len(t) <= 127 THEN t ELSE SubSeq(t, 1, 127)

\* A title of 128 characters, some of them two bytes long, came back as its
\* first 127 characters.
C1_Witness ==
  /\ HasStringTitle(raw)
  /\ Len(TitleOf(raw).v) = 128
  /\ \E i \in 1..128 : TitleOf(raw).v[i] = "U+00E9"
  /\ results["base"].kind = "return"
  /\ results["base"].val.t = "str"
  /\ Len(results["base"].val.v) = 127

\* C2: on the same input every provider's normalization gives the same result:
\* the base, OpenAI and Ollama normalizers and Claude's inline check agree.
C2_ProvidersAgree ==
  \A a, b \in Variants :
    (results[a].kind # "pending" /\ results[b].kind # "pending") =>
      SameOutcome(results[a], results[b])

\* All four have run on a title longer than 127 characters and returned a title.
C2_Witness ==
  /\ \A v \in Variants : results[v].kind = "return" /\ results[v].val.t = "str"
  /\ HasStringTitle(raw)
  /\ Len(TitleOf(raw).v) > 127

\* C3: a text that is not valid JSON, or a JSON object whose title is absent,
\* null or the empty string, gives None and no exception.
C3_InvalidGivesNone ==
  \A v \in TextVariants :
    ( /\ results[v].kind # "pending"
      /\ \/ json_loads(raw).kind = "raise"
         \/ /\ IsObject(raw)
            /\ \/ TitleOf(raw).t \in {"absent", "None"}
               \/ TitleOf(raw).t = "str" /\ Len(TitleOf(raw).v) = 0 )
    => ReturnsNone(results[v])

\* The base normalizer has returned None for a text that is not JSON.
C3_Witness ==
  /\ ~raw.isNone
  /\ json_loads(raw).kind = "raise"
  /\ ReturnsNone(results["base"])

\* C4: whatever the normalizer returns is a string (or None): valid JSON of any
\* other shape than an object with a string title gives None.
C4_OnlyStringsReturned ==
  \A v \in TextVariants :
    results[v].kind # "pending" =>
      /\ results[v].kind = "return"
      /\ results[v].val.t \in {"str", "None"}

\* C5: a title of 1..127 whitespace characters is returned unchanged.
C5_WhitespaceKept ==
  \A v \in TextVariants :
    ( /\ results[v].kind # "pending"
      /\ HasStringTitle(raw)
      /\ Len(TitleOf(raw).v) <= 127
      /\ \A i \in 1..Len(TitleOf(raw).v) : TitleOf(raw).v[i] \in Whitespace )
    => /\ results[v].kind = "return"
       /\ results[v].val.t = "str"
       /\ results[v].val.v = TitleOf(raw).v

\* Ollama's normalizer has returned a title of 127 spaces and line feeds.
C5_Witness ==
  /\ HasStringTitle(raw)
  /\ Len(TitleOf(raw).v) = 127
  /\ \A i \in 1..127 : TitleOf(raw).v[i] \in Whitespace
  /\ \E i \in 1..127 : TitleOf(raw).v[i] = "LF"
  /\ results["ollama"].kind = "return"
  /\ results["ollama"].val.t = "str"
  /\ Len(results["ollama"].val.v) = 127

---------------------------------------------------------------------------
(* Claims about the orchestrator (checked under Spec) *)

Finished == pc \in {"done", "raised"}

CountCalls(method) == Cardinality({i \in 1..Len(calls) : calls[i].method = method})

FetchedContent == PyGet(document_details, KEY_CONTENT, EMPTY_STR).val

\* C6: when the fetch answered 200 with non-empty content and the provider
\* returned the title T, the run made exactly one GET and then exactly one PATCH
\* on the same document id, and the PATCH body is {"title": T}.
C6_OneGetThenOnePatch ==
  ( /\ Finished
    /\ document_details.t = "obj"
    /\ Truthy(FetchedContent)
    /\ new_title.t = "str"
    /\ Truthy(new_title) )
  => /\ CountCalls("GET") = 1
     /\ CountCalls("PATCH") = 1
     /\ calls[1].method = "GET"
     /\ calls[1].id = document_id
     /\ calls[1].status = 200
     /\ LET last == calls[Len(calls)] IN
          /\ last.method = "PATCH"
          /\ last.id = document_id
          /\ last.body.t = "obj"
          /\ Len(last.body.v) = 1
          /\ last.body.v[1].key = KEY_TITLE
          /\ last.body.v[1].val.t = "str"
          /\ last.body.v[1].val.v = new_title.v

\* The run GET, LLM request, PATCH has ended with the title "AWS" written back.
C6_Witness ==
  /\ pc = "done"
  /\ Len(calls) = 3
  /\ calls[2].method = "LLM"
  /\ calls[3].method = "PATCH"
  /\ calls[3].status = 200
  /\ new_title.t = "str"
  /\ new_title.v = <<"A", "W", "S">>
  /\ calls[3].body.v[1].val.v = <<"A", "W", "S">>

\* C7: when the fetched document's content is empty or absent, no request goes
\* to the LLM provider and no PATCH is issued.
C7_EmptyContentStops ==
  (document_details.t = "obj" /\ Truthy(document_details) /\ ~Truthy(FetchedContent))
  => \A i \in 1..Len(calls) : calls[i].method = "GET"

\* C8: when the fetch answers with a non-200 status the run makes no LLM call
\* and no PATCH and returns normally: the GET is its only outbound call.
C8_FetchErrorStops ==
  (Len(calls) >= 1 /\ calls[1].status \in ErrorStatuses)
  => /\ pc = "done"
     /\ exc = "none"
     /\ Len(calls) = 1
     /\ calls[1].method = "GET"

\* The GET of document 999 was answered 404 and the run has ended.
C8_Witness ==
  /\ pc = "done"
  /\ document_id = 999
  /\ Len(calls) = 1
  /\ calls[1].method = "GET"
  /\ calls[1].status = 404

\* The outcomes the claim speaks of: the fetch answered 200 with a document that
\* has a title, or a non-200 status, or failed in transport; the provider
\* returned a title or none.
ClaimedOutcomes ==
  /\ (Len(calls) >= 1 /\ calls[1].status = 200) =>
        (document_details.t = "obj" /\ PyIndex(document_details, KEY_TITLE).kind = "return")
  /\ exc # "IndexError"

\* C9: whatever the fetch (200, non-200, network error), the provider (title, no
\* title) and the update (200, non-200, network error) do, no exception leaves
\* generate_and_update_title.
C9_NothingEscapes == ClaimedOutcomes => (pc # "raised" /\ exc = "none")

\* C10: a PATCH answered with a non-200 status is the last outbound call of the
\* run, which made one GET and one PATCH and returned normally.
C10_FailedPatchEndsRun ==
  \A i \in 1..Len(calls) :
    (calls[i].method = "PATCH" /\ calls[i].status \in ErrorStatuses)
    => /\ i = Len(calls)
       /\ pc = "done"
       /\ exc = "none"
       /\ CountCalls("GET") = 1
       /\ CountCalls("PATCH") = 1

\* The PATCH was answered 500 and the run has ended.
C10_Witness ==
  /\ pc = "done"
  /\ Len(calls) = 3
  /\ calls[3].method = "PATCH"
  /\ calls[3].status = 500

\* A provider's return value as the claim describes it: None or a string of
\* 1..127 characters.
NoneOrBoundedString(value) ==
  \/ value.t = "None"
  \/ value.t = "str" /\ Len(value.v) \in 1..MAX_TITLE_LENGTH

\* C24: whatever generate_title_from_text returned to the orchestrator is None
\* or a non-empty string of at most 127 characters, and every PATCH carries a
\* title that is a string of 1..127 characters.
C24_TitleNoneOrBoundedString ==
  /\ NoneOrBoundedString(new_title)
  /\ \A i \in 1..Len(calls) :
       calls[i].method = "PATCH" =>
         /\ calls[i].body.v[1].key = KEY_TITLE
         /\ calls[i].body.v[1].val.t = "str"
         /\ Len(calls[i].body.v[1].val.v) \in 1..MAX_TITLE_LENGTH

\* The place of an outbound call in the order GET, LLM request, PATCH.
Rank(method) ==
  CASE method = "GET" -> 1
    [] method = "LLM" -> 2
    [] method = "PATCH" -> 3

\* C25: in every run of generate_and_update_title the outbound calls come in
\* the order GET, LLM request, PATCH, at most one of each; the LLM request only
\* after the GET was answered 200, the PATCH only after the LLM request and
\* only when the provider returned a title.
C25_CallsInOrder ==
  /\ \A m \in {"GET", "LLM", "PATCH"} : CountCalls(m) <= 1
  /\ \A i, j \in 1..Len(calls) : i < j => Rank(calls[i].method) < Rank(calls[j].method)
  /\ \A i \in 1..Len(calls) :
       /\ calls[i].method = "LLM" =>
            i = 2 /\ calls[1].method = "GET" /\ calls[1].status = 200
       /\ calls[i].method = "PATCH" =>
            i = 3 /\ calls[2].method = "LLM" /\ Truthy(new_title)

\* A run of document 999 has made its three calls, the PATCH answered 404.
C25_Witness ==
  /\ pc = "done"
  /\ document_id = 999
  /\ Len(calls) = 3
  /\ calls[1].method = "GET" /\ calls[1].status = 200
  /\ calls[2].method = "LLM"
  /\ calls[3].method = "PATCH" /\ calls[3].status = 404

---------------------------------------------------------------------------
(* Claims about provider creation (checked under SpecCreate) *)

CreationPaths == {"factory", "orchestrator"}

\* The outcome of a finished creation on one path; the orchestrator's counts
\* when its constructor was called with the arguments its signature has.
Outcome(path) == IF path = "factory" THEN created.factory ELSE created.orchestrator

Done(path) ==
  /\ Outcome(path).kind # "pending"
  /\ path = "orchestrator" => created.arguments \subseteq INIT_PARAMETERS

HasName == settings_file.kind = "mapping" /\ "llm_provider" \in settings_file.keys
             /\ settings_file.llm_provider.t = "str"

\* llm_provider is a spelling of the provider name p.
NameIs(p) == HasName /\ PyLower(settings_file.llm_provider.v) = p

\* The message holds the word (a piece of literal text) or the name.
Mentions(msg, word) == \E i \in 1..Len(msg) : msg[i] = <<word>>

ContainsName(msg, name) == \E i \in 1..Len(msg) : msg[i] = name

CredentialError(o, credential) ==
  /\ o.kind = "raise"
  /\ o.exc = "ValueError"
  /\ Mentions(o.msg, credential)
  /\ Mentions(o.msg, "required")

\* C11: with OpenAI selected and no OPENAI_API_KEY, or Ollama selected and no
\* OLLAMA_BASE_URL, creation by the factory and by the orchestrator fails with a
\* message that names the missing credential and says "required"; no provider
\* instance is produced.
C11_MissingCredentialFails ==
  \A path \in CreationPaths :
    Done(path) =>
      /\ (NameIs(PROVIDER_OPENAI) /\ ~Truthy(env.openai_api_key))
           => CredentialError(Outcome(path), "OPENAI_API_KEY")
      /\ (NameIs(PROVIDER_OLLAMA) /\ ~Truthy(env.ollama_base_url))
           => CredentialError(Outcome(path), "OLLAMA_BASE_URL")

\* Both the factory and the orchestrator have refused "Ollama" without a base URL.
C11_Witness ==
  /\ NameIs(PROVIDER_OLLAMA)
  /\ settings_file.llm_provider.v # PROVIDER_OLLAMA
  /\ env.ollama_base_url.t = "None"
  /\ Truthy(env.openai_api_key)
  /\ Done("orchestrator")
  /\ \A path \in CreationPaths : CredentialError(Outcome(path), "OLLAMA_BASE_URL")

NameChars ==
  {LOWER[i] : i \in 1..Len(LOWER)} \cup {UPPER[i] : i \in 1..Len(UPPER)} \cup {"_", " "}

IsName(seg) == Len(seg) > 0 /\ \A i \in 1..Len(seg) : seg[i] \in NameChars

ListMarkers == {<<"Available providers: ">>, <<"Valid options: ">>}

\* The provider names a message lists after "Available providers:" / "Valid options:".
ListedNames(msg) ==
  {msg[j] : j \in {k \in 1..Len(msg) :
                     /\ IsName(msg[k])
                     /\ \E m \in 1..(k - 1) : msg[m] \in ListMarkers}}

FullEnv ==
  [openai_api_key |-> JStr(<<"k">>), ollama_base_url |-> JStr(<<"k">>),
   ollama_api_key |-> JStr(<<"k">>), claude_api_key |-> JStr(<<"k">>)]

CandidateNames == {PROVIDER_OPENAI, PROVIDER_OLLAMA, PROVIDER_CLAUDE, PROVIDER_GROK}

RegisteredNames == {PROVIDER_REGISTRY[i].key : i \in 1..Len(PROVIDER_REGISTRY)}

\* The names creation does not reject when every credential is there.
AcceptedNames(path) ==
  {n \in CandidateNames :
     IF path = "factory"
     THEN create_provider(JStr(n), FullEnv, SETTINGS_FILE).exc # "ValueError"
     ELSE create_llm_provider(LoadedSettings("dict", {"llm_provider"}, JStr(n)),
                              FullEnv, SETTINGS_FILE).exc # "ValueError"}

UnknownName == HasName /\ PyLower(settings_file.llm_provider.v) \notin RegisteredNames

C13_CaseInsensitive ==
  \A n \in RegisteredNames :
    NameIs(n) =>
      /\ Done("factory") =>
           created.factory = create_provider(JStr(n), env, SETTINGS_FILE)
      /\ Done("orchestrator") =>
           created.orchestrator =
             create_llm_provider(LoadedSettings("dict", {"llm_provider"}, JStr(n)),
                                 env, SETTINGS_FILE)

\* The orchestrator created an OpenAITitles for llm_provider: "OPENAI".
C13_Witness ==
  /\ HasName
  /\ settings_file.llm_provider.v = <<"O", "P", "E", "N", "A", "I">>
  /\ Done("orchestrator")
  /\ created.orchestrator.kind = "instance"
  /\ created.orchestrator.cls = "OpenAITitles"
  /\ created.factory.kind = "instance"

\* The settings are a mapping without llm_provider (or {} after a failed load).
NoProviderKey ==
  \/ settings_file.kind = "unreadable"
  \/ settings_file.kind = "mapping" /\ "llm_provider" \notin settings_file.keys

C15_ClaudeSelectable ==
  (created.orchestrator.kind # "pending" /\ NameIs(PROVIDER_CLAUDE)) =>
    IF Truthy(env.claude_api_key)
    THEN created.orchestrator.kind = "instance" /\ created.orchestrator.cls = "ClaudeTitles"
    ELSE CredentialError(created.orchestrator, "CLAUDE_API_KEY")

\* strip() of the key leaves nothing, or there is no key.
BlankKey(key) ==
  key.t = "None" \/ \A i \in 1..Len(key.v) : key.v[i] \in {" ", "LF", "TAB"}

AuthorizationHeader(key) ==
  <<[name |-> "Authorization", value |-> <<<<"Bearer ">>, key.v>>]>>

\* C19: an OllamaTitles is created with empty headers when the Ollama API key is
\* None, empty or blank, and with Authorization: Bearer <key> otherwise; the
\* orchestrator takes an ollama_api_key and hands it to the provider.
C19_OllamaKeyHeader ==
  /\ \A path \in CreationPaths :
       (Outcome(path).kind = "instance" /\ Outcome(path).cls = "OllamaTitles") =>
         Outcome(path).headers =
           IF BlankKey(env.ollama_api_key) THEN <<>>
           ELSE AuthorizationHeader(env.ollama_api_key)
  /\ \A path \in CreationPaths :
       ( /\ Outcome(path).kind # "pending"
         /\ NameIs(PROVIDER_OLLAMA)
         /\ Truthy(env.ollama_base_url)
         /\ path = "orchestrator" => "ollama_api_key" \in created.arguments )
       => Outcome(path).kind = "instance" /\ Outcome(path).cls = "OllamaTitles"

\* C27: when the settings file is missing, unreadable or empty, the
\* orchestrator's constructor raises nothing from the load or from reading the
\* loaded value: the configuration counts as empty and the default provider is
\* selected, so the outcome is an OpenAI provider, or the error of the missing
\* OPENAI_API_KEY.
C27_LoadFailureSelectsDefault ==
  (Done("orchestrator") /\ settings_file.kind \in {"unreadable", "empty"}) =>
    IF Truthy(env.openai_api_key)
    THEN /\ created.orchestrator.kind = "instance"
         /\ created.orchestrator.cls = "OpenAITitles"
    ELSE CredentialError(created.orchestrator, "OPENAI_API_KEY")

---------------------------------------------------------------------------
(* Claims about the prompt and the requests (checked under SpecPrompt) *)

\* sub occurs in s (sub is not empty).
Contains(s, sub) == \E i \in 1..(Len(s) - Len(sub) + 1) : StartsWith(s, i, sub)

\* with_date is set and true.
WithDate == settings.loaded /\ "with_date" \in settings.keys /\ settings.with_date

\* The settings hold a prompt block with at least one sub-key.
HasPromptBlock ==
  settings.loaded /\ "prompt" \in settings.keys /\ settings.prompt.keys # {}

\* A sub-key's value, empty when the sub-key is missing.
Part(key, value) == IF key \in settings.prompt.keys THEN value ELSE <<>>

\* What follows the date part: pre_content, the text, post_content.
AfterDate ==
  Part("pre_content", settings.prompt.pre_content) \o document_text
    \o Part("post_content", settings.prompt.post_content)

\* The part of the prompt between main and pre_content.
DatePart(p) ==
  SubSeq(p, Len(Part("main", settings.prompt.main)) + 1, Len(p) - Len(AfterDate))

\* C16 as stated: with with_date true, for every settings value and every text,
\* the prompt the builder returns contains today's date as YYYY-MM-DD and
\* nowhere the placeholder {current_date}.
C16_DateReplacesPlaceholder ==
  (built_prompt.kind = "return" /\ built_prompt.val.t = "str" /\ WithDate) =>
    /\ Contains(built_prompt.val.v, TODAY)
    /\ ~Contains(built_prompt.val.v, PLACEHOLDER)

\* C16 amended: with with_date true and a prompt.with_date template that holds
\* the placeholder, the prompt contains today's date as YYYY-MM-DD and the part
\* of the prompt that comes from prompt.with_date holds no placeholder.
C16_DateReplacesPlaceholderInTemplate ==
  ( /\ built_prompt.kind # "pending"
    /\ WithDate
    /\ HasPromptBlock
    /\ Contains(Part("with_date", settings.prompt.with_date), PLACEHOLDER) )
  => /\ built_prompt.kind = "return"
     /\ built_prompt.val.t = "str"
     /\ Contains(built_prompt.val.v, TODAY)
     /\ ~Contains(DatePart(built_prompt.val.v), PLACEHOLDER)

\* A template with two placeholders was built into a prompt around a text that
\* holds the placeholder itself.
C16_Witness ==
  /\ WithDate
  /\ HasPromptBlock
  /\ settings.prompt.with_date = Template(2, <<>>)
  /\ document_text = PLACEHOLDER
  /\ built_prompt.kind = "return"
  /\ built_prompt.val.t = "str"
  /\ Contains(built_prompt.val.v, TODAY)

\* The date part of the prompt: the template with every placeholder replaced by
\* today's date when with_date is true, else no_date.
ExpectedDate(d) ==
  IF WithDate
  THEN \/ "with_date" \notin settings.prompt.keys /\ d = <<>>
       \/ \E k \in 0..MaxCopies, t \in 1..Len(TemplateTails) :
            /\ "with_date" \in settings.prompt.keys
            /\ settings.prompt.with_date = Template(k, TemplateTails[t])
            /\ d = Dated(k, TemplateTails[t])
  ELSE d = Part("no_date", settings.prompt.no_date)

PromptBuilderFails == ~settings.loaded \/ "prompt" \notin settings.keys

\* C18: when the settings or the prompt block are absent, every provider's
\* generate_title_from_text returns None and sends no request to the LLM API.
C18_NoPromptNoRequest ==
  \A prov \in {"openai", "ollama", "claude"} :
    (generated[prov].outcome.kind # "pending" /\ PromptBuilderFails) =>
      /\ ReturnsNone(generated[prov].outcome)
      /\ generated[prov].requests = <<>>

\* The Ollama provider was asked for a title with settings that were loaded but
\* hold no prompt block.
C18_Witness ==
  /\ settings.loaded
  /\ settings.keys # {}
  /\ "prompt" \notin settings.keys
  /\ document_text = <<"A", "W", "S">>
  /\ ReturnsNone(generated["ollama"].outcome)
  /\ generated["ollama"].requests = <<>>

\* C20: the schema that goes out with a request is the same for every provider:
\* an object with the single required string property title, maxLength 127,
\* and no additional properties.
C20_SchemaLimit127 ==
  \A prov \in {"openai", "ollama", "claude"} :
    \A i \in 1..Len(generated[prov].schemas) :
      LET schema == generated[prov].schemas[i] IN
        /\ schema.type = "object"
        /\ DOMAIN schema.properties = {"title"}
        /\ schema.properties.title.type = "string"
        /\ schema.properties.title.maxLength = 127
        /\ schema.properties.title.maxLength = MAX_TITLE_LENGTH
        /\ schema.required = <<"title">>
        /\ schema.additionalProperties = FALSE
        /\ schema = TITLE_SCHEMA

\* The requests of provider `prov` that were answered without the expected
\* structure: no choices (OpenAI), no message (Ollama), no document_title
\* tool_use block (Claude), or no content in the message.
UnstructuredAnswers(prov) ==
  {i \in 1..Len(generated[prov].answers) :
     /\ generated[prov].answers[i].kind = "response"
     /\ \/ generated[prov].answers[i].envelope = "empty"
        \/ ~generated[prov].answers[i].has_content}

\* C28: for every provider, when the remote call succeeds but its envelope
\* lacks the expected structure, generate_title_from_text returns None and does
\* not raise.
C28_UnstructuredAnswerGivesNoTitle ==
  \A prov \in {"openai", "ollama", "claude"} :
    UnstructuredAnswers(prov) # {} => ReturnsNone(generated[prov].outcome)

\* The settings hold a prompt block, with whatever sub-keys.
PromptBlockPresent == settings.loaded /\ "prompt" \in settings.keys

\* C29: a sub-key missing from the prompt block counts as the empty string: for
\* every prompt block that is present, whichever of its sub-keys are missing,
\* the builder returns the concatenation of the parts; it fails (returns None)
\* only when the prompt block or the settings are absent.
C29_MissingSubKeysAreEmpty ==
  built_prompt.kind # "pending" =>
    IF PromptBlockPresent
    THEN /\ built_prompt.kind = "return"
         /\ built_prompt.val.t = "str"
         /\ LET p == built_prompt.val.v
                main == Part("main", settings.prompt.main)
            IN /\ Len(p) >= Len(main) + Len(AfterDate)
               /\ SubSeq(p, 1, Len(main)) = main
               /\ SubSeq(p, Len(p) - Len(AfterDate) + 1, Len(p)) = AfterDate
               /\ ExpectedDate(DatePart(p))
    ELSE ReturnsNone(built_prompt)

---------------------------------------------------------------------------
(* Claims about the model id and the failing request (checked under         *)
(* SpecModel)                                                               *)

\* The model id the two-tier lookup names: the nested entry, else the legacy
\* flat entry, else the provider's default.
TwoTierModel(prov) ==
  LET m == settings.models[prov] IN
  IF m.nested = "dict" /\ m.model # "none" THEN m.model
  ELSE IF m.flat # "none" THEN m.flat
  ELSE DEFAULT_MODELS[prov]

\* C21: for each provider P the model id of a request is settings[P]["model"]
\* when present, otherwise settings["P_model"] when present, otherwise the
\* default; the default is used only when neither entry is present, also when
\* the nested object exists without a model entry.
C21_TwoTierModelLookup ==
  \A prov \in {"openai", "ollama", "claude"} :
    \A i \in 1..Len(generated[prov].models) :
      generated[prov].models[i] = TwoTierModel(prov)

\* The request of provider `prov` that the remote API failed, if any.
FailedRequests(prov) ==
  {i \in 1..Len(generated[prov].answers) : generated[prov].answers[i].kind = "error"}

\* C22: for every provider, when the request fails with a transport or
\* remote-API error, generate_title_from_text returns None without raising and
\* exactly one request was issued for the call.
C22_FailedRequestGivesNoTitle ==
  \A prov \in {"openai", "ollama", "claude"} :
    FailedRequests(prov) # {} =>
      /\ ReturnsNone(generated[prov].outcome)
      /\ Len(generated[prov].requests) = 1

---------------------------------------------------------------------------
(* Claims about a provider instance (checked under SpecProvider)            *)

\* C23: constructing a provider with a missing or unreadable settings file
\* succeeds and stores None as its settings, and every later call of
\* generate_title_from_text returns None (and sends no request).
C23_UnreadableSettingsGiveNoTitle ==
  (settings_file.kind = "unreadable" /\ pc # "new") =>
    /\ pc = "constructed"
    /\ exc = "none"
    /\ ~settings.loaded
    /\ \A i \in 1..Len(history) :
         /\ ReturnsNone(history[i].outcome)
         /\ history[i].requests = <<>>

\* A provider constructed with an unreadable file was asked twice, the second
\* time for a non-empty text.
C23_Witness ==
  /\ settings_file.kind = "unreadable"
  /\ pc = "constructed"
  /\ provider = "claude"
  /\ Len(history) = MaxGenerateCalls
  /\ document_text = <<"A", "W", "S">>
  /\ ReturnsNone(history[MaxGenerateCalls].outcome)

---------------------------------------------------------------------------
(* Claims about a whole run (checked under SpecRun)                         *)

\* The provider the settings file selects needs a credential the environment
\* does not hold.
MissingCredential ==
  \/ /\ \/ NameIs(PROVIDER_OPENAI)
        \/ settings_file.kind \in {"unreadable", "mapping"} /\ ~HasName
     /\ ~Truthy(env.openai_api_key)
  \/ NameIs(PROVIDER_OLLAMA) /\ ~Truthy(env.ollama_base_url)

\* C26: when a credential is missing or the provider name is unknown, the
\* error raised in the orchestrator's constructor is what ends the run at the
\* entry point, and the run issues no GET, no LLM request and no PATCH.
C26_ConfigErrorEndsRun ==
  (pc # "new" /\ (MissingCredential \/ UnknownName)) =>
    /\ pc = "raised"
    /\ exc = "ValueError"
    /\ created.orchestrator.kind = "raise"
    /\ created.orchestrator.exc = "ValueError"
    /\ Len(created.orchestrator.msg) > 0
    /\ calls = <<>>

---------------------------------------------------------------------------
(* Claims about the standalone script (checked under SpecStandalone)        *)

\* s[i..j] is s without its leading and trailing whitespace.
IsStripped(s, i, j) ==
  /\ \A k \in 1..Len(s) : (k < i \/ k > j) => s[k] \in Whitespace
  /\ i <= j => (s[i] \notin Whitespace /\ s[j] \notin Whitespace)
  /\ i > j => (i = 1 /\ j = 0)

\* The title the claim has the script send for the answer s: the stripped
\* answer, or its first 124 characters and three dots when it is longer than 127.
IsSentTitle(s, title) ==
  \E i \in 1..(Len(s) + 1), j \in 0..Len(s) :
    /\ IsStripped(s, i, j)
    /\ title = IF j - i + 1 > 127
               THEN SubSeq(s, i, i + 123) \o <<".", ".", ".">>
               ELSE SubSeq(s, i, j)

StandaloneEnded == pc \in {"exit_0", "exit_1", "raised"}

\* C30: the standalone script sends a PATCH only after the GET was answered
\* 200 with a non-empty content and a non-empty title was generated; the title
\* sent has at most 127 characters (a longer answer is cut to its first 124
\* characters plus "..."); in every other case the run ends without a PATCH;
\* a run makes at most one GET, one LLM request and one PATCH.
C30_StandalonePatchGuarded ==
  /\ \A m \in {"GET", "LLM", "PATCH"} : CountCalls(m) <= 1
  /\ \A i \in 1..Len(calls) :
       calls[i].method = "PATCH" =>
         /\ i = 3
         /\ calls[1].method = "GET" /\ calls[1].status = 200
         /\ calls[2].method = "LLM"
         /\ FetchedContent.t = "str" /\ Len(FetchedContent.v) > 0
         /\ new_title.t = "str"
         /\ Len(new_title.v) \in 1..127
         /\ raw.t = "str"
         /\ IsSentTitle(raw.v, new_title.v)
         /\ calls[i].body.t = "obj"
         /\ Len(calls[i].body.v) = 1
         /\ calls[i].body.v[1].key = KEY_TITLE
         /\ calls[i].body.v[1].val.t = "str"
         /\ calls[i].body.v[1].val.v = new_title.v
  /\ ( /\ StandaloneEnded
       /\ \/ Len(calls) = 0
          \/ calls[1].status # 200
          \/ ~Truthy(document_details)
          \/ ~Truthy(FetchedContent)
          \/ ~Truthy(new_title) )
     => CountCalls("PATCH") = 0

\* An answer of more than 127 characters, wrapped in whitespace, was cut to 124
\* characters and three dots and written back.
C30_Witness ==
  /\ pc = "exit_0"
  /\ Len(calls) = 3
  /\ calls[3].method = "PATCH"
  /\ raw.t = "str"
  /\ Len(raw.v) > 129
  /\ raw.v[1] = " "
  /\ Len(new_title.v) = 127
  /\ SubSeq(new_title.v, 125, 127) = <<".", ".", ".">>
  /\ new_title.v[1] = "A"

===========================================================================
